---- MODULE Spec2Model ----
(***************************************************************************)
(* The autonomous state machine of an NPC (m1wengine NPC, with the         *)
(* Skeleton and Minotaur archetypes), driven frame by frame by Level.run:  *)
(* Player.update, then the NPC's update, then CameraManager.camera_update. *)
(* phase is the position of the game loop: "frame" between two frames,     *)
(* "bad" before the update of the bad-sprite group.                         *)
(*                                                                         *)
(* The NPC is the record npc, one field per attribute of the object.  The  *)
(* other sprites are the environment: what the radar sees, whether the     *)
(* NPC's rect touches the player or an obstacle, and the headings of the   *)
(* player and of the target are inputs of each update.  Two Vector2        *)
(* references of the NPC can name the same object (compass and             *)
(* _initial_charge_compass); compass_is_charge records that sharing.       *)
(***************************************************************************)
EXTENDS Integers, Sequences, FiniteSets, TLC

\* ------------------------------------------------------------------ bounds
\* clock resolution: perf_counter() is read in units of 1/TicksPerSecond s
TicksPerSecond == 1
\* the clock stops advancing at MaxClock units
MaxClock == 3
\* longest time, in clock units, between two frames
MaxDt == 1
\* the timer bench: latest start of a timer and latest reading of the clock,
\* in tenths of a second
MaxStart == 12
MaxTimerClock == 45
\* the radar scene: sprites stand at multiples of GridStep pixels up to
\* MaxGrid * GridStep, and a group has up to MaxGroup sprites
GridStep == 32
MaxGrid == 3
MaxGroup == 2
\* the collision scene: an obstacle overlaps the actor's rect by up to
\* MaxDepth pixels, and there are up to MaxObstacles obstacles
MaxDepth == 2
MaxObstacles == 2
\* the tracker bench: a compass component is a multiple of 1/CompassSteps up
\* to 1 in size, and move is called up to MaxCalls times
CompassSteps == 10
MaxCalls == 10
\* the reflection bench: a compass is reflected up to MaxReflections times
MaxReflections == 3
\* the level bench: Level.run is called up to MaxLevelTicks times
MaxLevelTicks == 3
\* the game loop bench: the loop of Game.run is entered up to MaxLoops times
MaxLoops == 6
\* the compass object bench: the player's heading is up to MaxTurns rotation
\* steps to either side of its first heading
MaxTurns == 2

\* ------------------------------------------------------- program constants
DEFAULT_SPEED == 1
DEFAULT_SPEED_FAST == 5
DEFAULT_SPEED_ZERO == 0
DEFAULT_TIMER_VALUE == -1
TRACKING_TIMER_SECONDS == 2
CHARGING_TIMER_SECONDS == 3
PATROL_TIMER_SECONDS == 3
THROWN_TIMER_SECONDS == 1
MAX_ACTION_QUEUE_LENGTH == 3
TILESIZE == 16
ENTITY_WIDTH == 16
ENTITY_HEIGHT == 20
inflation_size == 8

\* Direction enum
up == -1
down == 1
left == -1
right == 1
stop == 0

\* the members of the per-instance Enum "states"
States ==
  {"Default", "Patrol", "Attack", "Flee", "Follow", "Thrown", "Tracking", "Charging"}

\* the members of Actions; "none" is the no-op sentinel
Actions == {"consume", "destroy", "throw"}

EatenPowers == {"empty_stomach", "basic_skeleton", "damsel", "minotaur"}

\* the archetypes updated in the bad-sprite group
NPCKinds == {"Skeleton", "Minotaur"}

\* what _target_sprite can refer to: the blank pygame Sprite() of the
\* constructor and of reset_charge_variables, the player, a good sprite
Targets == {"blank", "player", "good"}

\* headings another sprite's compass can have when the NPC copies it, and the
\* headings rotate_compass_to_target_sprite can produce (quantised to the four
\* axis directions)
Headings == {<<1, 0>>, <<-1, 0>>, <<0, -1>>, <<0, 1>>}

\* a plain Enum member is truthy in Python (bool(member) is True)
EnumTruth(member) == member \in States

\* truth value of a Python int
IntTruth(i) == i # 0

\* int(t) of a clock value t held in clock units, as a clock value
IntSeconds(t) == (t \div TicksPerSecond) * TicksPerSecond

\* the same truncation for a clock read in units of 1/res s
IntSecondsAt(t, res) == (t \div res) * res

\* the not-started sentinel, in clock units
NotStarted == DEFAULT_TIMER_VALUE * TicksPerSecond

VARIABLES npc, player, now, phase, lastOp, scene

vars == <<npc, player, now, phase, lastOp, scene>>

\* --------------------------------------------------------------- Vector2
\* self.compass = <a new Vector2>: the compass now names a fresh object
BindCompass(n, v) == [n EXCEPT !.compass = v, !.compass_is_charge = FALSE]

\* self._compass.x = ..; self._compass.y = ..: the object is changed in
\* place, and with it every reference to it
WriteCompass(n, v) ==
  IF n.compass_is_charge
  THEN [n EXCEPT !.compass = v, !.initial_charge_compass = v]
  ELSE [n EXCEPT !.compass = v]

\* Vector2.reflect across the normal (1,0) (horizontal) or (0,1) (vertical)
reflect(v, normal) ==
  LET dot == v[1] * normal[1] + v[2] * normal[2]
  IN <<v[1] - 2 * dot * normal[1], v[2] - 2 * dot * normal[2]>>

\* ------------------------------------------------------------ Tile moves
\* move_right/left/up/down write the compass in place, then shift the rect
move_right(n) == WriteCompass(n, <<right, 0>>)

move_left(n) == WriteCompass(n, <<right, 0>>)

move_up(n) == WriteCompass(n, <<0, up>>)

move_down(n) == WriteCompass(n, <<0, down>>)

\* ------------------------------------------------------------ the setters
set_state_default(n) == [n EXCEPT !.current_state = "Default"]

set_state_patrol_unguarded(n) == [n EXCEPT !.current_state = "Patrol"]

set_state_patrol(n) ==
  IF n.current_state # "Thrown" /\ ~EnumTruth("Charging")
  THEN [n EXCEPT !.current_state = "Patrol"]
  ELSE n

set_state_attack(n) ==
  IF n.current_state # "Thrown"
  THEN [n EXCEPT !.current_state = "Attack"]
  ELSE n

set_state_flee(n) == [n EXCEPT !.current_state = "Flee"]

set_state_follow(n) ==
  IF n.current_state # "Thrown"
  THEN [n EXCEPT !.current_state = "Follow"]
  ELSE n

\* t is perf_counter(), pc the player's compass
set_state_thrown(n, t, pc) ==
  BindCompass([n EXCEPT !.current_state = "Thrown", !.last_time_stored = t], pc)

set_state_track_unguarded(n) == [n EXCEPT !.current_state = "Tracking"]

set_state_track(n) ==
  IF n.current_state = "Patrol"
  THEN [n EXCEPT !.current_state = "Tracking"]
  ELSE n

set_state_charge(n) ==
  IF n.current_state = "Tracking"
  THEN [n EXCEPT !.current_state = "Charging",
                 !.captured = n.initial_charge_compass]
  ELSE n

\* ------------------------------------------------------------- the world
\* The operations of one update act on a record w: w.n is the NPC, w.ep the
\* player's _eaten_power, w.q the player's _action_queue.  An operation that
\* reads the environment yields the set of its possible results; a result
\* whose n.error is set has raised, and the rest of the update is skipped.

\* an exception leaves the operation
Raise(w, exc) == [w EXCEPT !.n.error = exc]

\* ------------------------------------------------------------- collisions
\* what one collision_detection call can find: no overlap, or an overlap
\* whose teleport_out_of_sprite calls end with the given nudge
Nudges == {"none", "left", "right", "up", "down"}

Sides == {"left", "right", "up", "down"}

CollisionScans ==
  {[detected |-> FALSE, nudge |-> "none"]}
    \cup {[detected |-> TRUE, nudge |-> x] : x \in Nudges}

\* NPC.teleport_out_of_sprite: a one-pixel move_left/right/up/down
teleport_out_of_sprite(n, nudge) ==
  CASE nudge = "left" -> move_left(n)
    [] nudge = "right" -> move_right(n)
    [] nudge = "up" -> move_up(n)
    [] nudge = "down" -> move_down(n)
    [] OTHER -> n

\* Character.collision_detection: the scan c, with its interleaved nudges
collision_detection(n, c) ==
  IF c.detected THEN teleport_out_of_sprite(n, c.nudge) ELSE n

\* Character.collision_set_compass: side is where the average contact point
\* lies; the compass is reflected when it points into that side
character_collision_set_compass(n, side) ==
  CASE side = "right" /\ n.compass[1] > 0 -> BindCompass(n, reflect(n.compass, <<right, 0>>))
    [] side = "left" /\ n.compass[1] < 0 -> BindCompass(n, reflect(n.compass, <<right, 0>>))
    [] side = "up" /\ n.compass[2] < 0 -> BindCompass(n, reflect(n.compass, <<0, down>>))
    [] side = "down" /\ n.compass[2] > 0 -> BindCompass(n, reflect(n.compass, <<0, down>>))
    [] OTHER -> n

\* NPC.collision_set_compass
collision_set_compass(n, side, t) ==
  [character_collision_set_compass(n, side) EXCEPT !.last_time_stored = t]

\* Character.collision_handler
character_collision_handler(n, c, side, t) ==
  LET n1 == collision_detection(n, c)
  IN IF c.detected THEN collision_set_compass(n1, side, t) ELSE n1

\* ------------------------------------------------------- player contact
\* Skeleton.die / Minotaur.die: score callback, then Tile.die (kill)
die(n) == [n EXCEPT !.score_calls = @ + 1, !.alive = FALSE]

ensure_full_action_queue_overfull(q, a) ==
  IF Len(q) <= MAX_ACTION_QUEUE_LENGTH THEN Append(q, a) ELSE q

\* Player.ensure_full_action_queue; a is the value of random.choice(actions)
ensure_full_action_queue(q, a) ==
  IF Len(q) < MAX_ACTION_QUEUE_LENGTH THEN Append(q, a) ELSE q

\* Player.pop_next_player_action: list.pop() takes the last entry; the
\* result is the pair of the action returned and the queue left
pop_next_player_action(q) ==
  IF Len(q) > 0
  THEN <<q[Len(q)], SubSeq(q, 1, Len(q) - 1)>>
  ELSE <<"none", q>>

\* The level holds more NPCs than the one modelled, and each of them pops
\* from the player's queue when it touches the player.  AnyQueue stands for
\* the queue of such a level, whose content at the moment this NPC pops is
\* not known: a pop can return any action or the sentinel.  In a level
\* where this NPC is alone the queue is the list itself.
AnyQueue == <<"any">>

PoppedActions == Actions \cup {"none"}

\* the possible results of a pop
Pops(q) ==
  IF q = AnyQueue
  THEN {<<a, q>> : a \in PoppedActions}
  ELSE {pop_next_player_action(q)}

\* the refill of Player.update
Refill(q, a) == IF q = AnyQueue THEN q ELSE ensure_full_action_queue(q, a)

player_action_none_kills(w, a, t) ==
  CASE a = "destroy" -> {[w EXCEPT !.n = die(w.n)]}
    [] a = "consume" ->
         IF w.n.kind = "Skeleton"
         THEN {[w EXCEPT !.n = die(w.n), !.ep = "basic_skeleton"]}
         ELSE {Raise([w EXCEPT !.n = die(w.n)], "ValueError")}
    [] a = "throw" ->
         {[w EXCEPT !.n = set_state_thrown(w.n, t, pc)] : pc \in Headings}
    [] OTHER -> {[w EXCEPT !.n = die(w.n)]}

\* NPC.collided_with_player, the branches on the popped action: a consumer
\* that is neither a Skeleton nor a Damsel raises ValueError after die()
player_action(w, a, t) ==
  CASE a = "destroy" -> {[w EXCEPT !.n = die(w.n)]}
    [] a = "consume" ->
         IF w.n.kind = "Skeleton"
         THEN {[w EXCEPT !.n = die(w.n), !.ep = "basic_skeleton"]}
         ELSE {Raise([w EXCEPT !.n = die(w.n)], "ValueError")}
    [] a = "throw" ->
         {[w EXCEPT !.n = set_state_thrown(w.n, t, pc)] : pc \in Headings}
    [] OTHER -> {w}

collided_with_player(w, t) ==
  IF w.n.current_state # "Thrown"
  THEN UNION {player_action([w EXCEPT !.q = popped[2]], popped[1], t)
                : popped \in Pops(w.q)}
  ELSE {w}

collision_handler_uncaught(w, contact, t) ==
  LET handled == {[w EXCEPT !.n = character_collision_handler(w.n, c, side, t)]
                    : c \in CollisionScans, side \in Sides}
  IN IF contact
     THEN UNION {collided_with_player(w1, t) : w1 \in handled}
     ELSE handled

\* Skeleton.collision_handler / Minotaur.collision_handler; contact is
\* self.rect.colliderect(self._player._hitbox), and the ValueError of
\* collided_with_player is caught and printed
collision_handler(w, contact, t) ==
  LET handled == {[w EXCEPT !.n = character_collision_handler(w.n, c, side, t)]
                    : c \in CollisionScans, side \in Sides}
  IN IF contact
     THEN {IF x.n.error = "ValueError" THEN Raise(x, "none") ELSE x
             : x \in UNION {collided_with_player(w1, t) : w1 \in handled}}
     ELSE handled

\* ------------------------------------------------------------------ timers
\* NPC.is_timer_finished, for a started timer; t is perf_counter()
is_timer_finished(initial, threshold_seconds, t) ==
  IntSeconds(t) >= initial + threshold_seconds * TicksPerSecond

timer_check_lenient(initial, threshold_seconds, t, res) ==
  [raised |-> "none",
   finished |-> IntSecondsAt(t, res) >= initial + threshold_seconds * res]

\* NPC.is_timer_finished as a whole, for a clock read in units of 1/res s:
\* the validation of the sentinel, then the comparison
timer_check(initial, threshold_seconds, t, res) ==
  IF initial = DEFAULT_TIMER_VALUE * res
  THEN [raised |-> "ValueError", finished |-> FALSE]
  ELSE [raised |-> "none",
        finished |-> IntSecondsAt(t, res) >= initial + threshold_seconds * res]

\* ------------------------------------------------------------------ radar
\* NPC.radar_set_state: collisions tells whether the radar overlaps the
\* entity (the player, or some member of the group), found is the sprite
\* that becomes the target, active names the setter passed in
radar_set_state_unguarded(n, collisions, found, active) ==
  IF collisions
  THEN LET n1 == [n EXCEPT !.target_sprite = found]
       IN CASE active = "attack" /\ n1.current_state # "Attack" -> set_state_attack(n1)
            [] active = "flee" /\ n1.current_state # "Flee" -> set_state_flee(n1)
            [] active = "follow" /\ n1.current_state # "Follow" -> set_state_follow(n1)
            [] active = "track" /\ n1.current_state # "Tracking" -> set_state_track(n1)
            [] active = "charge" /\ n1.current_state # "Charging" -> set_state_charge(n1)
            [] OTHER -> n1
  ELSE n

radar_set_state(n, collisions, found, active) ==
  IF collisions /\ n.current_state # "Thrown"
  THEN LET n1 == [n EXCEPT !.target_sprite = found]
       IN CASE active = "attack" /\ n1.current_state # "Attack" -> set_state_attack(n1)
            [] active = "flee" /\ n1.current_state # "Flee" -> set_state_flee(n1)
            [] active = "follow" /\ n1.current_state # "Follow" -> set_state_follow(n1)
            [] active = "track" /\ n1.current_state # "Tracking" -> set_state_track(n1)
            [] active = "charge" /\ n1.current_state # "Charging" -> set_state_charge(n1)
            [] OTHER -> n1
  ELSE n

\* NPC.radar_set_states with set_state_patrol as the passive setter: the
\* test _current_state != set_passive_state compares an enum member with a
\* bound method and is always true
radar_set_states(n, collisions, found, active) ==
  LET n1 == radar_set_state(n, collisions, found, active)
  IN IF ~collisions THEN set_state_patrol(n1) ELSE n1

\* ------------------------------------------------------- movement policies
\* NPC.reset_charge_variables
reset_charge_variables(n) ==
  [n EXCEPT !.speed = DEFAULT_SPEED,
            !.target_sprite = "blank",
            !.initial_tracking_time = NotStarted,
            !.initial_charge_time = NotStarted]

\* the compass flip of patrol_movement, written in place:
\* if compass.x != 1 or compass.x != 1: compass.x = 1, else compass.x *= -1
patrol_flip(n) ==
  WriteCompass(n, <<IF n.compass[1] # 1 \/ n.compass[1] # 1 THEN 1 ELSE -n.compass[1], 0>>)

\* the turn of patrol_movement: when the patrol timer is finished the compass
\* flips and the timer restarts at perf_counter()
patrol_turn(n, finished, t) ==
  IF finished THEN [patrol_flip(n) EXCEPT !.last_time_stored = t] ELSE n

\* NPC.patrol_movement
patrol_movement(w, contact, t) ==
  IF w.n.current_state = "Patrol"
  THEN LET n1 == [w.n EXCEPT !.speed = DEFAULT_SPEED]
           n2 == patrol_turn(
                   n1, is_timer_finished(n1.last_time_stored, PATROL_TIMER_SECONDS, t), t)
       IN collision_handler([w EXCEPT !.n = n2], contact, t)
  ELSE {w}

\* NPC.flee_movement; the blank Sprite() has no rect, so facing_towards_entity
\* raises AttributeError on it
flee_movement(w, contact, t) ==
  IF w.n.current_state = "Flee"
  THEN IF w.n.target_sprite = "blank"
       THEN {Raise(w, "AttributeError")}
       ELSE {w}
              \cup UNION {collision_handler([w EXCEPT !.n = BindCompass(w.n, tc)], contact, t)
                            : tc \in Headings}
  ELSE {w}

\* NPC.move_towards_target_sprite: dx, dy are the signs of target.rect.x -
\* rect.x and target.rect.y - rect.y; tc is the target's compass
move_towards_target_sprite(n, dx, dy, tc) ==
  LET n1 == IF dx > 0 THEN move_right(n) ELSE IF dx < 0 THEN move_left(n) ELSE n
      n2 == IF dy > 0 THEN move_down(n1) ELSE IF dy < 0 THEN move_up(n1) ELSE n1
  IN BindCompass(n2, tc)

\* NPC.attack_movement and NPC.follow_movement
attack_movement(w) ==
  IF w.n.target_sprite = "blank"
  THEN {Raise(w, "AttributeError")}
  ELSE {[w EXCEPT !.n = move_towards_target_sprite(w.n, dx, dy, tc)]
          : dx \in {-1, 0, 1}, dy \in {-1, 0, 1}, tc \in Headings}

thrown_scan_bounce(w, c) ==
  [w EXCEPT !.n = [collision_detection(w.n, c) EXCEPT !.speed = DEFAULT_SPEED_FAST]]

\* NPC.thrown_movement while the timer runs, for the obstacle scan c: death
\* on overlap, else a move at DEFAULT_SPEED_FAST
thrown_scan(w, c) ==
  LET n1 == collision_detection(w.n, c)
  IN IF c.detected
     THEN [w EXCEPT !.n = die(n1)]
     ELSE [w EXCEPT !.n = [n1 EXCEPT !.speed = DEFAULT_SPEED_FAST]]

thrown_movement_untimed(w, t) == {thrown_scan(w, c) : c \in CollisionScans}

\* NPC.thrown_movement
thrown_movement(w, t) ==
  IF is_timer_finished(w.n.last_time_stored, THROWN_TIMER_SECONDS, t)
  THEN {[w EXCEPT !.n.current_state = "Default"]}
  ELSE {thrown_scan(w, c) : c \in CollisionScans}

\* NPC.rotate_compass_to_target_sprite: the compass is set to (stop, up) and
\* rotated in place to the heading h of the target
rotate_compass_to_target_sprite(n, h) == WriteCompass(n, h)

tracking_scan_unstarted(n, c, t) ==
  LET n1 == collision_detection(n, c)
  IN IF c.detected
     THEN IF n1.initial_tracking_time = NotStarted
          THEN [n1 EXCEPT !.error = "ValueError"]
          ELSE IF is_timer_finished(n1.initial_tracking_time, TRACKING_TIMER_SECONDS, t)
          THEN set_state_charge(n1)
          ELSE n1
     ELSE reset_charge_variables(n1)

\* NPC.tracking_movement after the rotation, for the obstacle scan c; the
\* timer is started if it is not, and is_timer_finished raises ValueError on
\* a timer that is not started
tracking_scan(n, c, t) ==
  LET n1 == collision_detection(n, c)
  IN IF c.detected
     THEN LET n2 == IF n1.initial_tracking_time = NotStarted
                    THEN [n1 EXCEPT !.initial_tracking_time = IntSeconds(t)]
                    ELSE n1
          IN IF n2.initial_tracking_time = NotStarted
             THEN [n2 EXCEPT !.error = "ValueError"]
             ELSE IF is_timer_finished(n2.initial_tracking_time, TRACKING_TIMER_SECONDS, t)
             THEN set_state_charge(n2)
             ELSE n2
     ELSE reset_charge_variables(n1)

\* NPC.tracking_movement
tracking_movement(w, t) ==
  IF w.n.current_state = "Tracking"
  THEN IF w.n.target_sprite = "blank"
       THEN {Raise([w EXCEPT !.n.speed = DEFAULT_SPEED_ZERO], "AttributeError")}
       ELSE {LET n1 == rotate_compass_to_target_sprite(
                         [w.n EXCEPT !.speed = DEFAULT_SPEED_ZERO], h)
                 n2 == [n1 EXCEPT !.initial_charge_compass = n1.compass,
                                  !.compass_is_charge = FALSE]
             IN [w EXCEPT !.n = tracking_scan(n2, c, t)]
               : h \in Headings, c \in CollisionScans}
  ELSE {w}

\* the speed a charge tick moves with:
\* if speed == DEFAULT_SPEED or DEFAULT_SPEED_ZERO: speed = DEFAULT_SPEED_FAST
charge_speed(speed) ==
  IF speed = DEFAULT_SPEED \/ IntTruth(DEFAULT_SPEED_ZERO) THEN DEFAULT_SPEED_FAST ELSE speed

\* NPC.charge_movement; the timer is started if it is not, and
\* is_timer_finished raises ValueError on a timer that is not started
charge_movement(w, t) ==
  IF w.n.current_state = "Charging"
  THEN LET n1 == [w.n EXCEPT !.compass = w.n.initial_charge_compass,
                             !.compass_is_charge = TRUE]
           n2 == IF n1.initial_charge_time = NotStarted
                 THEN [n1 EXCEPT !.initial_charge_time = IntSeconds(t)]
                 ELSE n1
       IN IF n2.initial_charge_time = NotStarted
          THEN {Raise([w EXCEPT !.n = n2], "ValueError")}
          ELSE IF is_timer_finished(n2.initial_charge_time, CHARGING_TIMER_SECONDS, t)
          THEN {[w EXCEPT !.n = set_state_default(reset_charge_variables(n2))]}
          ELSE {LET n3 == collision_detection(n2, c)
                IN IF c.detected
                   THEN [w EXCEPT !.n = set_state_default(reset_charge_variables(n3))]
                   ELSE [w EXCEPT !.n = [n3 EXCEPT !.speed = charge_speed(n3.speed),
                                                   !.charge_move =
                                                     <<charge_speed(n3.speed), n3.compass>>]]
                  : c \in CollisionScans}
  ELSE {w}

\* NPC.move_based_on_state; contact tells whether the NPC's rect overlaps
\* the player's hitbox at the collision_handler call of a movement policy
move_based_on_state(w, contact, t) ==
  LET first ==
        CASE w.n.current_state = "Attack" -> attack_movement(w)
          [] w.n.current_state = "Flee" -> flee_movement(w, contact, t)
          [] w.n.current_state = "Patrol" -> patrol_movement(w, contact, t)
          [] w.n.current_state = "Follow" -> attack_movement(w)
          [] w.n.current_state = "Thrown" -> thrown_movement(w, t)
          [] w.n.current_state = "Tracking" -> tracking_movement(w, t)
          [] OTHER -> {w}
  IN UNION {IF x.n.error # "none" THEN {x} ELSE charge_movement(x, t) : x \in first}

\* the setter an archetype passes to the second (good-sprite) radar check
group_active_state(kind) == IF kind = "Skeleton" THEN "attack" ELSE "track"

radar_checks_player_last(n, player_on_radar, good_on_radar) ==
  LET n1 == radar_set_state(n, good_on_radar, "good", group_active_state(n.kind))
  IN radar_set_states(n1, player_on_radar, "player", "flee")

\* the two radar checks of automate_movement: the player with flee and
\* patrol, then the good sprites with the archetype's offensive setter
radar_checks(n, player_on_radar, good_on_radar) ==
  LET n1 == radar_set_states(n, player_on_radar, "player", "flee")
  IN radar_set_state(n1, good_on_radar, "good", group_active_state(n1.kind))

\* Skeleton.automate_movement / Minotaur.automate_movement
automate_movement(w, player_on_radar, good_on_radar, contact, t) ==
  move_based_on_state(
    [w EXCEPT !.n = radar_checks(w.n, player_on_radar, good_on_radar)], contact, t)

\* Skeleton.update / Minotaur.update
update(w, player_on_radar, good_on_radar, contact1, contact2, t) ==
  UNION {IF x.n.error = "none" /\ x.n.current_state # "Thrown"
         THEN collision_handler(x, contact2, t)
         ELSE {x}
           : x \in automate_movement(w, player_on_radar, good_on_radar, contact1, t)}

\* ------------------------------------------------------- history fields
\* npc.captured: the heading held by _initial_charge_compass when
\*   set_state_charge took the NPC from Tracking to Charging (<<>> outside
\*   such a charge);
\* npc.charge_move: <<speed, compass>> of the move() made by charge_movement
\*   in the latest update (<<>> if it made none);
\* npc.tracked_since: the clock value of the first update of the current
\*   unbroken run of updates that ended in Tracking with a good sprite on
\*   the radar (NotStarted if the latest update was not such an update).
Nothing == <<>>

History(before, after, good_on_radar, t) ==
  [after EXCEPT
     !.captured = IF after.current_state = "Charging" THEN @ ELSE Nothing,
     !.tracked_since =
        IF after.current_state = "Tracking" /\ good_on_radar /\ after.error = "none"
        THEN IF before.current_state = "Tracking" /\ before.tracked_since # NotStarted
             THEN before.tracked_since
             ELSE t
        ELSE NotStarted]

\* ------------------------------------------------------------ radar scene
\* pygame.Rect: top-left corner and size
Rect(x, y, w, h) == [x |-> x, y |-> y, w |-> w, h |-> h]

\* Rect.center
center(r) == <<r.x + r.w \div 2, r.y + r.h \div 2>>

\* Rect.inflate: the size grows, the centre stays
inflate(r, dx, dy) == Rect(r.x - dx \div 2, r.y - dy \div 2, r.w + dx, r.h + dy)

\* Rect.colliderect: the interiors overlap
colliderect(a, b) ==
  /\ a.x < b.x + b.w
  /\ b.x < a.x + a.w
  /\ a.y < b.y + b.h
  /\ b.y < a.y + a.h

\* Rect.collidelistall: the indices of the rectangles of the list that
\* collide with r, in the order of the list
collidelistall(r, rect_list) ==
  SelectSeq([i \in 1 .. Len(rect_list) |-> i],
            LAMBDA i : colliderect(r, rect_list[i]))

\* the radar of NPC.__init__, centred on the actor's rect as
\* automate_movement centres it before the radar checks
radar_of(rect) == inflate(rect, TILESIZE * inflation_size, TILESIZE * inflation_size)

\* Character.get_distance, squared: hypot(coords - rect[0], coords - rect[1]);
\* rect[0] and rect[1] are the left and the top of the actor's rect. The
\* square orders as the hypotenuse does.
get_distance(rect, coords) ==
  (coords[1] - rect.x) * (coords[1] - rect.x)
    + (coords[2] - rect.y) * (coords[2] - rect.y)

\* index_of_closest before the loop of set_target_sprite_from_list (-1 in
\* the source, whose indices start at 0)
NoIndex == 0

\* float(sys.maxsize), above every distance
maxsize == 2147483647

\* the loop of NPC.set_target_sprite_from_list over the collision indices
RECURSIVE closest_from(_, _, _, _, _)
closest_from(rect, sprite_group_list, collisions, current_min_distance, index_of_closest) ==
  IF collisions = <<>>
  THEN index_of_closest
  ELSE LET collision_index == Head(collisions)
           coord == center(sprite_group_list[collision_index])
           distance == get_distance(rect, coord)
           old_min == current_min_distance
           new_min == IF distance < current_min_distance
                      THEN distance ELSE current_min_distance
       IN closest_from(rect, sprite_group_list, Tail(collisions), new_min,
                       IF new_min < old_min THEN collision_index
                                            ELSE index_of_closest)

\* NPC.set_target_sprite_from_list: the target is the sprite of the list at
\* index_of_closest when the loop found one
set_target_sprite_from_list(sc, collisions) ==
  LET index_of_closest == closest_from(sc.rect, sc.sprite_group_list, collisions,
                                       maxsize, NoIndex)
  IN IF index_of_closest # NoIndex
     THEN [sc EXCEPT !.target_sprite = index_of_closest]
     ELSE sc

\* a level whose sprites' positions are not followed
EmptyScene ==
  [rect |-> Rect(0, 0, TILESIZE, TILESIZE),
   sprite_group_list |-> <<>>,
   target_sprite |-> NoIndex]

\* the positions of the radar scene
Coords(n) == {k * GridStep : k \in 0 .. n}

\* the groups of the radar scene: up to MaxGroup sprites, each a tile placed
\* by Tile.set_tile (the hitbox is the rect)
SceneGroups ==
  UNION {[1 .. n -> {Rect(x, y, TILESIZE, TILESIZE) : x, y \in Coords(MaxGrid)}]
           : n \in 0 .. MaxGroup}

\* -------------------------------------------------------- collision scene
\* An actor among obstacle tiles.  a is the actor: kind, rect, hitbox (for a
\* Minotaur _hitbox is the rect object itself), compass, _movement_tracker
\* as <<horizontal, vertical>>, _last_time_stored.

\* Rect.move_ip on the actor's rect; where the hitbox is the same object it
\* moves too
move_ip(a, dx, dy) ==
  LET moved == Rect(a.rect.x + dx, a.rect.y + dy, a.rect.w, a.rect.h)
  IN [a EXCEPT !.rect = moved,
               !.hitbox = IF a.kind = "Minotaur" THEN moved ELSE @]

\* self._hitbox.center = self.rect.center
center_hitbox(a) ==
  [a EXCEPT !.hitbox = Rect(center(a.rect)[1] - a.hitbox.w \div 2,
                            center(a.rect)[2] - a.hitbox.h \div 2,
                            a.hitbox.w, a.hitbox.h)]

\* Tile._move_left / _move_right / _move_up / _move_down
move_pixels(a, x, y) == center_hitbox(move_ip(a, x, y))

\* Tile.move_left / move_right / move_up / move_down with the default speed:
\* the compass is written, then the tile moves one pixel
step_left(a) == move_pixels(move_left(a), -1 * DEFAULT_SPEED, 0)

step_right(a) == move_pixels(move_right(a), DEFAULT_SPEED, 0)

step_up(a) == move_pixels(move_up(a), 0, -1 * DEFAULT_SPEED)

step_down(a) == move_pixels(move_down(a), 0, DEFAULT_SPEED)

\* Tile.move: update_movement_tracker, then a move of speed pixels on each
\* axis whose tracker has reached a whole pixel
tile_move(a, speed) ==
  LET h == a.movement_tracker[1] + a.compass[1]
      v == a.movement_tracker[2] + a.compass[2]
      a1 == IF v <= up THEN move_pixels(a, 0, -1 * speed)
            ELSE IF v >= down THEN move_pixels(a, 0, speed)
            ELSE a
      v1 == IF v <= up THEN v + down ELSE IF v >= down THEN v + up ELSE v
      a2 == IF h <= left THEN move_pixels(a1, -1 * speed, 0)
            ELSE IF h >= right THEN move_pixels(a1, speed, 0)
            ELSE a1
      h1 == IF h <= left THEN h + right ELSE IF h >= right THEN h + left ELSE h
  IN [a2 EXCEPT !.movement_tracker = <<h1, v1>>]

\* Player.move: Tile.move, then hitbox.centerx = rect.centerx + 1
player_move(a, speed) ==
  LET a1 == tile_move(a, speed)
  IN [a1 EXCEPT !.hitbox.x = center(a1.rect)[1] + 1 - a1.hitbox.w \div 2]

\* the move() of the actor's class
move(a, speed) == IF a.kind = "Player" THEN player_move(a, speed) ELSE tile_move(a, speed)

\* |x|
abs(x) == IF x < 0 THEN -x ELSE x

\* Character.further_axis
further_axis(a, coord) ==
  IF abs(center(a.rect)[1] - coord[1]) > abs(center(a.rect)[2] - coord[2])
  THEN "horizontal"
  ELSE "vertical"

\* the test of teleport_out_of_sprite (the same in Character and in NPC):
\* the side the actor is pushed to, if any
nudge_of(a, collision_rect) ==
  IF further_axis(a, center(collision_rect)) = "horizontal"
  THEN IF center(a.hitbox)[1] < center(collision_rect)[1]
       THEN IF collision_rect.x - (a.hitbox.x + a.hitbox.w + 1) < 0
            THEN "left" ELSE "none"
       ELSE IF collision_rect.x + collision_rect.w - (a.hitbox.x - 1) > 0
            THEN "right" ELSE "none"
  ELSE IF center(a.hitbox)[2] < center(collision_rect)[2]
       THEN IF collision_rect.y - (a.hitbox.y + a.hitbox.h + 1) < 0
            THEN "up" ELSE "none"
       ELSE IF collision_rect.y + collision_rect.h - (a.hitbox.y - 1) > 0
            THEN "down" ELSE "none"

\* Character.teleport_out_of_sprite (the Player's): rect.move_ip by a pixel
character_teleport_out_of_sprite(a, collision_rect) ==
  LET nudge == nudge_of(a, collision_rect)
  IN CASE nudge = "left" -> move_ip(a, -1, 0)
       [] nudge = "right" -> move_ip(a, 1, 0)
       [] nudge = "up" -> move_ip(a, 0, -1)
       [] nudge = "down" -> move_ip(a, 0, 1)
       [] OTHER -> a

\* NPC.teleport_out_of_sprite: move_left / move_right / move_up / move_down
npc_teleport_out_of_sprite(a, collision_rect) ==
  LET nudge == nudge_of(a, collision_rect)
  IN CASE nudge = "left" -> step_left(a)
       [] nudge = "right" -> step_right(a)
       [] nudge = "up" -> step_up(a)
       [] nudge = "down" -> step_down(a)
       [] OTHER -> a

\* the teleport_out_of_sprite of the actor's class
teleport_out(a, collision_rect) ==
  IF a.kind = "Player"
  THEN character_teleport_out_of_sprite(a, collision_rect)
  ELSE npc_teleport_out_of_sprite(a, collision_rect)

\* sorted_collisions before the loop of collision_detection
NoContacts == [left |-> <<>>, right |-> <<>>, up |-> <<>>, down |-> <<>>]

\* the body of the loop of collision_detection for one collided sprite: its
\* hitbox centre is appended to the list of its side, or to no list
sort_collision(a, sorted, collided_coord) ==
  IF further_axis(a, collided_coord) = "vertical"
  THEN IF collided_coord[2] < center(a.hitbox)[2]
       THEN [sorted EXCEPT !.up = Append(@, collided_coord)]
       ELSE IF collided_coord[2] > center(a.hitbox)[2]
       THEN [sorted EXCEPT !.down = Append(@, collided_coord)]
       ELSE sorted
  ELSE IF collided_coord[1] < center(a.hitbox)[1]
       THEN [sorted EXCEPT !.left = Append(@, collided_coord)]
       ELSE IF collided_coord[1] > center(a.hitbox)[1]
       THEN [sorted EXCEPT !.right = Append(@, collided_coord)]
       ELSE sorted

\* the loop of collision_detection over the collision indices: each collided
\* sprite is sorted, then the actor is teleported out of it
RECURSIVE collision_loop(_, _, _, _)
collision_loop(a, obstacle_sprites, collision_indicies, sorted) ==
  IF collision_indicies = <<>>
  THEN [a |-> a, sorted |-> sorted]
  ELSE LET collided_sprite == obstacle_sprites[Head(collision_indicies)]
       IN collision_loop(teleport_out(a, collided_sprite), obstacle_sprites,
                         Tail(collision_indicies),
                         sort_collision(a, sorted, center(collided_sprite)))

\* Character.collision_detection: the actor after the teleports and the
\* dictionary; the indices are those of self.rect.collidelistall
collision_detection_at(a, obstacle_sprites) ==
  LET collision_indicies == collidelistall(a.rect, obstacle_sprites)
      done == collision_loop(a, obstacle_sprites, collision_indicies, NoContacts)
  IN [a |-> done.a,
      collision_detected |-> collision_indicies # <<>>,
      sorted |-> done.sorted]

\* the sum of the coordinates of a list of points
RECURSIVE sum_coords(_)
sum_coords(coords) ==
  IF coords = <<>> THEN <<0, 0>>
  ELSE <<Head(coords)[1] + sum_coords(Tail(coords))[1],
         Head(coords)[2] + sum_coords(Tail(coords))[2]>>

\* Character.average_collision_coordinates: the point is <<x / count,
\* y / count>>, kept as the sums and the count (count 1 and sums 0 when no
\* point was sorted: the point is then (0, 0))
average_collision_coordinates(sorted) ==
  LET all == sorted.left \o sorted.right \o sorted.up \o sorted.down
  IN IF all = <<>>
     THEN [x |-> 0, y |-> 0, count |-> 1]
     ELSE [x |-> sum_coords(all)[1], y |-> sum_coords(all)[2], count |-> Len(all)]

\* the branch of Character.collision_set_compass taken for the average
\* point: the comparisons, multiplied by the count
collided_side(a, point) ==
  LET distance_to_x == point.x - point.count * center(a.rect)[1]
      distance_to_y == point.y - point.count * center(a.rect)[2]
  IN IF abs(distance_to_x) > abs(distance_to_y)
     THEN IF distance_to_x > 0 THEN "right" ELSE "left"
     ELSE IF distance_to_y < 0 THEN "up" ELSE "down"

\* NPC.collision_set_compass / Character.collision_set_compass at a point
collision_set_compass_at(a, point, t) ==
  IF a.kind = "Player"
  THEN character_collision_set_compass(a, collided_side(a, point))
  ELSE collision_set_compass(a, collided_side(a, point), t)

\* Character.collision_handler among obstacles
collision_handler_at(a, obstacle_sprites, t) ==
  LET found == collision_detection_at(a, obstacle_sprites)
  IN IF found.collision_detected
     THEN collision_set_compass_at(found.a, average_collision_coordinates(found.sorted), t)
     ELSE found.a

\* ----------------------------------------------------------- float tracker
\* _movement_tracker holds Python floats and a Vector2 holds C doubles (IEEE
\* 754 binary64, round to nearest, ties to even).  A float is the record
\* [neg, hi, lo] of the value (hi * Limb + lo) / Limb^2, negated when neg:
\* a multiple of 2^-56.  The floats of the bench are sums and differences of
\* such multiples below 4, which are multiples of 2^-56 again.

\* the bits of a float's significand
SIGNIFICAND_BITS == 53

\* the bits of one half of the record, and its size
LIMB_BITS == 28

Limb == 2 ^ LIMB_BITS

\* the size of the digits the division of float_of_ratio produces
Digit == 2 ^ (LIMB_BITS \div 2)

RECURSIVE bit_length(_)
\* int.bit_length
bit_length(i) == IF i = 0 THEN 0 ELSE 1 + bit_length(i \div 2)

\* the low bits a significand cannot hold for a magnitude whose upper half
\* is hi
dropped_bits(hi) ==
  IF bit_length(hi) + LIMB_BITS > SIGNIFICAND_BITS
  THEN bit_length(hi) + LIMB_BITS - SIGNIFICAND_BITS
  ELSE 0

\* the float nearest to (hi * Limb + lo + rem / den) / Limb^2, for
\* 0 <= rem < den
round_to_float(neg, hi, lo, rem, den) ==
  LET q == 2 ^ dropped_bits(hi)
      r == lo % q
      kept == lo - r
      twice == 2 * (r * den + rem)
      half == q * den
      odd == (lo \div q) % 2 = 1
      lo1 == IF twice > half \/ (twice = half /\ odd) THEN kept + q ELSE kept
  IN [neg |-> neg /\ (hi # 0 \/ lo1 # 0), hi |-> hi + lo1 \div Limb, lo |-> lo1 % Limb]

\* p / q of two ints, as Python's true division (or the literal) gives it
float_of_ratio(p, q) ==
  LET n == IF p < 0 THEN -p ELSE p
      d1 == (n * Digit) \div q
      r1 == (n * Digit) % q
      d2 == (r1 * Digit) \div q
      r2 == (r1 * Digit) % q
      d3 == (r2 * Digit) \div q
      r3 == (r2 * Digit) % q
      d4 == (r3 * Digit) \div q
      r4 == (r3 * Digit) % q
  IN round_to_float(p < 0, d1 * Digit + d2, d3 * Digit + d4, r4, q)

\* float(i), the conversion of an int or an IntEnum member in a sum or a
\* comparison with a float
float_of_int(i) == float_of_ratio(i, 1)

\* |a| < |b|
mag_less(a, b) == a.hi < b.hi \/ (a.hi = b.hi /\ a.lo < b.lo)

\* a + b of two floats
float_add(a, b) ==
  IF a.neg = b.neg
  THEN LET lo == a.lo + b.lo
       IN round_to_float(a.neg, a.hi + b.hi + lo \div Limb, lo % Limb, 0, 1)
  ELSE LET big == IF mag_less(a, b) THEN b ELSE a
           small == IF mag_less(a, b) THEN a ELSE b
           borrow == IF big.lo < small.lo THEN 1 ELSE 0
           hi == big.hi - small.hi - borrow
           lo == big.lo - small.lo + borrow * Limb
       IN round_to_float(big.neg /\ (hi # 0 \/ lo # 0), hi, lo, 0, 1)

\* a <= b of two floats
float_le(a, b) ==
  IF a.neg # b.neg THEN a.neg
  ELSE IF a.neg THEN ~mag_less(a, b)
  ELSE ~mag_less(b, a)

\* i * a of a small int and a float
float_times_int(a, i) ==
  LET k == IF i < 0 THEN -i ELSE i
      lo == a.lo * k
  IN round_to_float(a.neg # (i < 0), a.hi * k + lo \div Limb, lo % Limb, 0, 1)

\* the normals Character.collision_set_compass reflects across:
\* Vector2(Direction.right, 0) and Vector2(0, Direction.down)
ReflectNormals == {<<right, 0>>, <<0, down>>}

vector_reflect_once(v, normal) ==
  LET dot == float_add(float_times_int(v[1], normal[1]), float_times_int(v[2], normal[2]))
  IN <<float_add(v[1], float_times_int(dot, -1 * normal[1])),
       float_add(v[2], float_times_int(dot, -1 * normal[2]))>>

\* Vector2.reflect of a compass of floats across a normal of length 1:
\* each component is src - 2 * normal * dot(src, normal)
vector_reflect(v, normal) ==
  LET dot == float_add(float_times_int(v[1], normal[1]), float_times_int(v[2], normal[2]))
  IN <<float_add(v[1], float_times_int(dot, -2 * normal[1])),
       float_add(v[2], float_times_int(dot, -2 * normal[2]))>>

\* Tile.update_movement_tracker
update_movement_tracker(a) ==
  [a EXCEPT !.movement_tracker = <<float_add(@[1], a.compass[1]),
                                   float_add(@[2], a.compass[2])>>]

\* Tile.move with a compass of floats (tile_move is the same for a compass
\* of whole numbers, where the sums are exact)
tile_move_float(a, speed) ==
  LET a0 == update_movement_tracker(a)
      h == a0.movement_tracker[1]
      v == a0.movement_tracker[2]
      goes_up == float_le(v, float_of_int(up))
      goes_down == float_le(float_of_int(down), v)
      goes_left == float_le(h, float_of_int(left))
      goes_right == float_le(float_of_int(right), h)
      a1 == IF goes_up THEN move_pixels(a0, 0, -1 * speed)
            ELSE IF goes_down THEN move_pixels(a0, 0, speed)
            ELSE a0
      v1 == IF goes_up THEN float_add(v, float_of_int(down))
            ELSE IF goes_down THEN float_add(v, float_of_int(up))
            ELSE v
      a2 == IF goes_left THEN move_pixels(a1, -1 * speed, 0)
            ELSE IF goes_right THEN move_pixels(a1, speed, 0)
            ELSE a1
      h1 == IF goes_left THEN float_add(h, float_of_int(right))
            ELSE IF goes_right THEN float_add(h, float_of_int(left))
            ELSE h
  IN [a2 EXCEPT !.movement_tracker = <<h1, v1>>]

\* ------------------------------------------------------------- level bench
\* Level.run over the groups Level.create_characters_from_layout fills: the
\* GroupSingle of the player and the bad, good and neutral groups.  lv is
\* the level: groups (each a sequence of sprite names, in the order they
\* were added), pos (the x of each sprite's rect), stamp (the tick of each
\* sprite's last update), seen (what each sprite's last update was given:
\* the player, the bad and the good group as they were then), tick.

LevelSprites == {"player", "skeleton", "minotaur", "damsel", "postman"}

LevelGroups ==
  [player |-> <<"player">>,
   bad |-> <<"skeleton", "minotaur">>,
   good |-> <<"damsel">>,
   neutral |-> <<"postman">>]

\* the elements of a sequence
Range(q) == {q[i] : i \in 1 .. Len(q)}

\* Tile.die: kill() removes the sprite from every group
level_kill(lv, a) ==
  [lv EXCEPT !.groups = [g \in DOMAIN lv.groups |->
                           SelectSeq(lv.groups[g], LAMBDA b : b # a)]]

\* update(bad_sprites, good_sprites) of one sprite: it reads the player and
\* the two groups, moves, and (an NPC) may die
sprite_update(lv, a) ==
  LET lv1 == [lv EXCEPT !.seen[a] = [pos |-> lv.pos,
                                     stamp |-> lv.stamp,
                                     bad_sprites |-> Range(lv.groups.bad),
                                     good_sprites |-> Range(lv.groups.good)],
                        !.pos[a] = @ + DEFAULT_SPEED,
                        !.stamp[a] = lv.tick]
  IN IF a = "player" THEN {lv1} ELSE {lv1, level_kill(lv1, a)}

RECURSIVE sprites_update(_, _)
\* Group.update: update of every sprite the group has when the call starts
sprites_update(lvs, sprites) ==
  IF sprites = << >> THEN lvs
  ELSE sprites_update(UNION {sprite_update(lv, Head(sprites)) : lv \in lvs},
                      Tail(sprites))

update_order_bad_first == <<"bad", "player", "good", "neutral">>

\* the order of the group updates in Level.run
update_order == <<"player", "bad", "good", "neutral">>

RECURSIVE groups_update(_, _)
\* the update calls of Level.run, one group after the other
groups_update(lvs, order) ==
  IF order = << >> THEN lvs
  ELSE groups_update(UNION {sprites_update({lv}, lv.groups[Head(order)]) : lv \in lvs},
                     Tail(order))

\* CameraManager.camera_update: every sprite of the camera (the NPCs, not
\* the player) moves against the player's heading at the player's speed
level_camera_update(lv) ==
  [lv EXCEPT !.pos = [a \in LevelSprites |->
                        IF a # "player"
                             /\ \E g \in DOMAIN lv.groups : a \in Range(lv.groups[g])
                        THEN lv.pos[a] - lv.heading * DEFAULT_SPEED
                        ELSE lv.pos[a]]]

\* Level.run: nothing is updated while the HUD pauses the level
level_run(lv, pause_level) ==
  LET lv0 == [lv EXCEPT !.tick = @ + 1, !.paused = pause_level]
  IN IF pause_level THEN {lv0}
     ELSE {level_camera_update(lv1) : lv1 \in groups_update({lv0}, update_order)}

\* ---------------------------------------------------------- game loop bench
\* LevelManager.run under the loop of Game.run.  m is the manager:
\* menu_enabled (self._menu.is_enabled()), level_loaded (self._level is a
\* level and not the placeholder object()), user_input, quit_game, and
\* clock_ticks, the calls of self._clock.tick.

UserSelection == {"none", "level", "restart", "main_menu", "quit"}

\* LevelManager.__init__: the main menu is loaded first
NewLevelManager ==
  [menu_enabled |-> TRUE,
   level_loaded |-> FALSE,
   user_input |-> "none",
   quit_game |-> FALSE,
   clock_ticks |-> 0]

\* the user selection check of LevelManager.run; for quit the statement is
\* the comparison `self._quit_game is not self._quit_game`, which assigns
\* nothing
user_selection_check(m, selection) ==
  CASE selection = "restart" -> [m EXCEPT !.level_loaded = TRUE]
    [] selection = "main_menu" -> [m EXCEPT !.level_loaded = FALSE, !.menu_enabled = TRUE]
    [] selection = "quit" -> m
    [] OTHER -> m

\* LevelManager.run; selection is what the menu, or the level's game over
\* menu, holds as the user's selection, and a menu in which level was
\* selected disables itself
level_manager_run(m, selection) ==
  LET m1 == IF m.menu_enabled
            THEN [m EXCEPT !.menu_enabled = (selection # "level"),
                           !.user_input = selection]
            ELSE [m EXCEPT !.level_loaded = TRUE,
                           !.user_input = selection,
                           !.clock_ticks = @ + 1]
  IN user_selection_check(m1, selection)

\* ------------------------------------------------------ compass object bench
\* Compasses as the objects they are.  A pygame Vector2 is mutable and the
\* compass setter stores the object it is given (Tile.compass), so two actors
\* can hold one vector.  s.heap maps an object to its value; s.npc, s.player
\* and s.charge are the objects held by the NPC's _compass, the player's
\* _compass (the player is the NPC's _player and its _target_sprite) and the
\* NPC's _initial_charge_compass; s.origin tells whose vector the NPC's
\* object was copied from.  A value is a heading in steps of
\* PLAYER_ROTATION_SPEED degrees, counted from (1, 0) towards (0, 1), or
\* NoHeading for Vector2(0, 0).

PLAYER_ROTATION_SPEED == 5

FullTurn == 360 \div PLAYER_ROTATION_SPEED

QuarterTurn == FullTurn \div 4

NoHeading == FullTurn

\* Vector2(Direction.right, 0), (0, Direction.down), (Direction.left, 0) and
\* (0, Direction.up) as headings
heading_of_axis(axis) ==
  CASE axis = "right" -> 0
    [] axis = "down" -> QuarterTurn
    [] axis = "left" -> 2 * QuarterTurn
    [] axis = "up" -> 3 * QuarterTurn

\* the signs of compass.x and compass.y
heading_x_sign(k) ==
  IF k = NoHeading \/ k = QuarterTurn \/ k = 3 * QuarterTurn THEN 0
  ELSE IF k < QuarterTurn \/ k > 3 * QuarterTurn THEN 1 ELSE -1

heading_y_sign(k) ==
  IF k = NoHeading \/ k = 0 \/ k = 2 * QuarterTurn THEN 0
  ELSE IF k < 2 * QuarterTurn THEN 1 ELSE -1

\* Vector2.rotate_ip(steps * PLAYER_ROTATION_SPEED)
heading_rotate(k, steps) ==
  IF k = NoHeading THEN k ELSE (k + steps + FullTurn) % FullTurn

\* Vector2.reflect: the normal (Direction.right, 0) negates x, the normal
\* (0, Direction.down) negates y
heading_reflect(k, normal) ==
  IF k = NoHeading THEN k
  ELSE IF normal = <<right, 0>> THEN (2 * QuarterTurn + FullTurn - k) % FullTurn
  ELSE (FullTurn - k) % FullTurn

CompassRoots == {"npc", "player", "charge"}

\* every root can hold its own vector, and one more is being made
Refs == 1 .. (Cardinality(CompassRoots) + 1)

live_refs(s) == {s.npc, s.player, s.charge}

\* a vector no attribute holds is gone
collect(s) ==
  [s EXCEPT !.heap = [r \in Refs |-> IF r \in live_refs(s) THEN s.heap[r] ELSE NoHeading]]

\* the object a constructor call returns: one that nothing holds yet
new_ref(s) == CHOOSE r \in Refs \ live_refs(s) : \A q \in Refs \ live_refs(s) : r <= q

vector_copy_shared(s, r) == r

\* Vector2.copy(): the object that holds the copy of object r
vector_copy(s, r) == new_ref(s)

\* self.compass = <source>.compass.copy(), the source being the player
copy_player_compass(s) ==
  LET c == vector_copy(s, s.player)
  IN collect([s EXCEPT !.heap[c] = s.heap[s.player], !.npc = c, !.origin = "player"])

\* self.compass = <a new vector of value k>
bind_new_compass(s, k) ==
  LET c == new_ref(s)
  IN collect([s EXCEPT !.heap[c] = k, !.npc = c, !.origin = "own"])

\* self._compass.x = ..., self._compass.y = ...: a write into the object
write_compass(s, k) == [s EXCEPT !.heap[s.npc] = k]

\* NPC.set_state_thrown
set_state_thrown_by_ref(s) == copy_player_compass(s)

\* Tile.move_left / move_right / move_up / move_down; move_left writes
\* Direction.right
move_axis_by_ref(s, axis) ==
  write_compass(s, heading_of_axis(IF axis = "left" THEN "right" ELSE axis))

\* Character.collision_set_compass: reflect returns a new vector
collision_set_compass_by_ref(s, side) ==
  LET k == s.heap[s.npc]
  IN CASE side = "right" /\ heading_x_sign(k) > 0 -> bind_new_compass(s, heading_reflect(k, <<right, 0>>))
       [] side = "left" /\ heading_x_sign(k) < 0 -> bind_new_compass(s, heading_reflect(k, <<right, 0>>))
       [] side = "up" /\ heading_y_sign(k) < 0 -> bind_new_compass(s, heading_reflect(k, <<0, down>>))
       [] side = "down" /\ heading_y_sign(k) > 0 -> bind_new_compass(s, heading_reflect(k, <<0, down>>))
       [] OTHER -> s

\* Character.collision_handler of the NPC: the nudge of
\* NPC.teleport_out_of_sprite, then collision_set_compass
collision_handler_by_ref(s, nudge, side) ==
  IF nudge = "none" THEN s
  ELSE collision_set_compass_by_ref(move_axis_by_ref(s, nudge), side)

\* NPC.flee_movement
flee_movement_by_ref(s, facing, nudge, side) ==
  IF facing THEN collision_handler_by_ref(copy_player_compass(s), nudge, side) ELSE s

\* NPC.move_towards_target_sprite
move_towards_target_sprite_by_ref(s, dx, dy) ==
  LET s1 == IF dx > 0 THEN move_axis_by_ref(s, "right")
            ELSE IF dx < 0 THEN move_axis_by_ref(s, "left") ELSE s
      s2 == IF dy > 0 THEN move_axis_by_ref(s1, "down")
            ELSE IF dy < 0 THEN move_axis_by_ref(s1, "up") ELSE s1
  IN copy_player_compass(s2)

\* the compass flip of NPC.patrol_movement, written into the object:
\* if compass.x != 1 the x becomes 1, else it becomes -1, then y = 0; of the
\* headings only (1, 0) has x = 1
patrol_flip_by_ref(s) ==
  write_compass(s, heading_of_axis(IF s.heap[s.npc] = 0 THEN "left" ELSE "right"))

\* NPC.tracking_movement: rotate_compass_to_target_sprite writes (0, up) into
\* the object and rotates it in place to the heading k of the target; the
\* charge compass is then a copy
tracking_by_ref(s, k) ==
  LET s1 == write_compass(s, k)
      c == vector_copy(s1, s1.npc)
  IN collect([s1 EXCEPT !.heap[c] = k, !.charge = c])

\* NPC.charge_movement: self.compass = self._initial_charge_compass
charge_movement_by_ref(s) == collect([s EXCEPT !.npc = s.charge, !.origin = "own"])

\* CameraManager.camera_update: every sprite, the player too, is given the
\* negated copy of the player's compass, moved, and given a new vector of its
\* previous value
camera_update_by_ref(s) ==
  LET s1 == bind_new_compass(s, s.heap[s.npc])
      p == new_ref(s1)
  IN collect([s1 EXCEPT !.heap[p] = s1.heap[s1.player], !.player = p])

\* Player.input: K_LEFT rotates the compass in place by -PLAYER_ROTATION_SPEED,
\* K_RIGHT by PLAYER_ROTATION_SPEED
player_input_by_ref(s, steps) ==
  [s EXCEPT !.heap[s.player] = heading_rotate(@, steps)]

\* the bearings of the target that the bench draws: the multiples of 45 degrees
TargetBearings == {i * (QuarterTurn \div 2) : i \in 0 .. 7}

\* the player's heading as rotation steps from (1, 0), left steps negative
player_turns(s) ==
  LET k == s.heap[s.player]
  IN IF k > 2 * QuarterTurn THEN k - FullTurn ELSE k

\* ------------------------------------------------------------------ states
\* the NPC as NPC.__init__ (with Character.__init__ and Tile.__init__)
\* leaves it
NewNPC(kind) ==
  [kind |-> kind,
   current_state |-> "Default",
   speed |-> DEFAULT_SPEED,
   target_sprite |-> "blank",
   last_time_stored |-> 0,
   initial_tracking_time |-> NotStarted,
   initial_charge_time |-> NotStarted,
   compass |-> <<right, 0>>,
   initial_charge_compass |-> <<0, 0>>,
   compass_is_charge |-> FALSE,
   alive |-> TRUE,
   error |-> "none",
   score_calls |-> 0,
   captured |-> Nothing,
   charge_move |-> Nothing,
   tracked_since |-> NotStarted]

\* the player as Player.__init__ leaves it
NewPlayer == [eaten_power |-> "empty_stomach", action_queue |-> <<>>]

Init ==
  /\ npc \in {NewNPC(k) : k \in NPCKinds}
  /\ player = [NewPlayer EXCEPT !.action_queue = AnyQueue]
  /\ now = 0
  /\ phase = "frame"
  /\ lastOp = "init"
  /\ scene = EmptyScene

\* the NPC placed in Patrol, the state the passive fallback is written to
\* give every NPC that sees nothing on its radar
InitPatrol ==
  /\ npc \in {[NewNPC(k) EXCEPT !.current_state = "Patrol"] : k \in NPCKinds}
  /\ player = [NewPlayer EXCEPT !.action_queue = AnyQueue]
  /\ now = 0
  /\ phase = "frame"
  /\ lastOp = "init"
  /\ scene = EmptyScene

\* a level with the player and the NPC alone, as constructed
InitSolo ==
  /\ npc \in {NewNPC(k) : k \in NPCKinds}
  /\ player = NewPlayer
  /\ now = 0
  /\ phase = "frame"
  /\ lastOp = "init"
  /\ scene = EmptyScene

\* the timer bench reads the clock in tenths of a second
TenthsPerSecond == 10

\* the timer bench: an NPC in Patrol, heading right, away from the player and
\* from obstacles, whose patrol timer was started at the clock value t0
InitTimer ==
  /\ \E k \in NPCKinds, t0 \in 0 .. MaxStart :
       /\ npc = [NewNPC(k) EXCEPT
                   !.current_state = "Patrol",
                   !.last_time_stored = t0,
                   !.initial_tracking_time = DEFAULT_TIMER_VALUE * TenthsPerSecond,
                   !.initial_charge_time = DEFAULT_TIMER_VALUE * TenthsPerSecond]
       /\ now = t0
  /\ player = NewPlayer
  /\ phase = "timer"
  /\ lastOp = "init"
  /\ scene = EmptyScene

\* the radar scene: a patrolling Minotaur and its good-sprite group
InitRadar ==
  /\ npc = [NewNPC("Minotaur") EXCEPT !.current_state = "Patrol"]
  /\ player = NewPlayer
  /\ now = 0
  /\ phase = "radar"
  /\ lastOp = "init"
  /\ \E x, y \in Coords(1), sprites \in SceneGroups :
       scene = [rect |-> Rect(x, y, TILESIZE, TILESIZE),
                sprite_group_list |-> sprites,
                target_sprite |-> NoIndex]

\* the collision scene: where the actor is constructed
ActorRect == Rect(2 * TILESIZE, 2 * TILESIZE, ENTITY_WIDTH, ENTITY_HEIGHT)

\* the actor as the constructors leave it: Player.__init__ inflates the
\* hitbox by (2, 0), Skeleton.__init__ by (-4, 0), Minotaur.__init__ makes
\* the rect its hitbox
NewActor(kind, compass) ==
  [kind |-> kind,
   rect |-> ActorRect,
   hitbox |-> CASE kind = "Player" -> inflate(ActorRect, 2, 0)
                [] kind = "Skeleton" -> inflate(ActorRect, -4, 0)
                [] OTHER -> ActorRect,
   compass |-> compass,
   compass_is_charge |-> FALSE,
   initial_charge_compass |-> <<0, 0>>,
   movement_tracker |-> <<0, 0>>,
   last_time_stored |-> 0]

\* the kinds of actor of the collision scene
ActorKinds == {"Player"} \cup NPCKinds

\* the compasses of the collision scene: the four headings and two diagonals
SceneCompasses == Headings \cup {<<1, 1>>, <<-1, 1>>}

\* where an obstacle tile (Tile.set_tile: the hitbox is the rect) stands: on
\* one side of the actor's rect, overlapping it by 0 .. MaxDepth pixels on
\* that side's axis and centred on the other, or centred on the actor
ObstaclePlaces ==
  LET r == ActorRect
      mid_x == r.x + (r.w - TILESIZE) \div 2
      mid_y == r.y + (r.h - TILESIZE) \div 2
  IN {Rect(mid_x, mid_y, TILESIZE, TILESIZE)}
       \cup UNION {{Rect(r.x + r.w - d, mid_y, TILESIZE, TILESIZE),
                    Rect(r.x - TILESIZE + d, mid_y, TILESIZE, TILESIZE),
                    Rect(mid_x, r.y + r.h - d, TILESIZE, TILESIZE),
                    Rect(mid_x, r.y - TILESIZE + d, TILESIZE, TILESIZE)}
                     : d \in 0 .. MaxDepth}

\* the obstacle groups of the collision scene
ObstacleGroups == UNION {[1 .. n -> ObstaclePlaces] : n \in 0 .. MaxObstacles}

\* the collision scene: a freshly constructed actor among obstacles, at
\* clock value 1
InitCollide ==
  /\ npc = NewNPC("Skeleton")
  /\ player = NewPlayer
  /\ now = 1
  /\ phase = "collide"
  /\ lastOp = "init"
  /\ \E kind \in ActorKinds, compass \in SceneCompasses, obstacles \in ObstacleGroups :
       scene = [actor |-> NewActor(kind, compass),
                obstacle_sprites |-> obstacles,
                collision_detected |-> FALSE,
                speed |-> DEFAULT_SPEED_ZERO]

\* the tracker bench: a freshly constructed tile whose compass components
\* are kx / CompassSteps and ky / CompassSteps, moved at one speed
InitTracker ==
  /\ npc = NewNPC("Skeleton")
  /\ player = NewPlayer
  /\ now = 1
  /\ phase = "track"
  /\ lastOp = "init"
  /\ \E kx \in -CompassSteps .. CompassSteps, ky \in -CompassSteps .. CompassSteps,
        speed \in {DEFAULT_SPEED, DEFAULT_SPEED_FAST} :
       scene = [actor |-> [NewActor("Skeleton", <<float_of_ratio(kx, CompassSteps),
                                                  float_of_ratio(ky, CompassSteps)>>)
                             EXCEPT !.movement_tracker = <<float_of_int(0), float_of_int(0)>>],
                ratio |-> <<kx, ky>>,
                calls |-> 0,
                speed |-> speed]

\* the reflection bench: a compass of floats, the compass before the last
\* reflection, the normal of the last reflection and whether the one before
\* had the same normal
InitReflect ==
  /\ npc = NewNPC("Skeleton")
  /\ player = NewPlayer
  /\ now = 1
  /\ phase = "reflect"
  /\ lastOp = "init"
  /\ \E kx \in -CompassSteps .. CompassSteps, ky \in -CompassSteps .. CompassSteps :
       scene = [compass |-> <<float_of_ratio(kx, CompassSteps),
                              float_of_ratio(ky, CompassSteps)>>,
                before |-> <<float_of_int(0), float_of_int(0)>>,
                normal |-> <<0, 0>>,
                twice |-> FALSE,
                calls |-> 0]

\* the level bench: the level as Level.__init__ leaves it, the sprites
\* TILESIZE apart, the player heading left, right or nowhere
InitLevel ==
  /\ npc = NewNPC("Skeleton")
  /\ player = NewPlayer
  /\ now = 1
  /\ phase = "level"
  /\ lastOp = "init"
  /\ \E heading \in {left, stop, right} :
       scene = [groups |-> LevelGroups,
                pos |-> [a \in LevelSprites |->
                           CASE a = "player" -> 0
                             [] a = "skeleton" -> TILESIZE
                             [] a = "minotaur" -> 2 * TILESIZE
                             [] a = "damsel" -> 3 * TILESIZE
                             [] OTHER -> 4 * TILESIZE],
                stamp |-> [a \in LevelSprites |-> 0],
                seen |-> [a \in LevelSprites |->
                            [pos |-> [b \in LevelSprites |-> 0],
                             stamp |-> [b \in LevelSprites |-> 0],
                             bad_sprites |-> {},
                             good_sprites |-> {}]],
                heading |-> heading,
                tick |-> 0,
                paused |-> FALSE]

\* the game loop bench: Game.__init__ has cleared its quit flag and made the
\* level manager
InitGame ==
  /\ npc = NewNPC("Skeleton")
  /\ player = NewPlayer
  /\ now = 1
  /\ phase = "game"
  /\ lastOp = "init"
  /\ scene = [manager |-> NewLevelManager,
              quit_game |-> FALSE,
              loops |-> 0]

\* the compass object bench: Tile.__init__ gives each actor its own
\* Vector2(0, 0), Character.__init__ writes Direction.right into its x, and
\* NPC.__init__ makes _initial_charge_compass a Vector2(0, 0)
InitAlias ==
  /\ npc = NewNPC("Skeleton")
  /\ player = NewPlayer
  /\ now = 1
  /\ phase = "alias"
  /\ lastOp = "init"
  /\ scene = [heap |-> [r \in Refs |-> CASE r = 1 -> 0 [] r = 2 -> 0 [] OTHER -> NoHeading],
              npc |-> 1,
              player |-> 2,
              charge |-> 3,
              origin |-> "own"]

\* the frame loop runs while nothing has propagated out of Level.run; a dead
\* NPC has left every group and is updated no more
Running == npc.error = "none" /\ npc.alive

\* ----------------------------------------------------------------- actions
\* CameraManager.camera_update: every sprite of the camera group gets a new
\* Vector2 with its previous heading as compass
camera_update(n) == IF n.alive THEN BindCompass(n, n.compass) ELSE n

\* what an update of the NPC starts from
World ==
  [n |-> [npc EXCEPT !.charge_move = Nothing],
   ep |-> player.eaten_power,
   q |-> player.action_queue]

\* the results of the NPC's update at clock value t
UpdateResults(player_on_radar, good_on_radar, contact1, contact2, t) ==
  {[w EXCEPT !.n = History(npc, w.n, good_on_radar, t)]
     : w \in update(World, player_on_radar, good_on_radar, contact1, contact2, t)}

\* Level.run of an unpaused frame, first part: the clock has advanced since
\* the previous frame, and Player.update runs; what it does to the player's
\* heading and action queue reaches the NPC as inputs of its update
PlayerUpdate ==
  /\ Running
  /\ phase = "frame"
  /\ \E dt \in 0 .. MaxDt :
       /\ now + dt <= MaxClock
       /\ now' = now + dt
  /\ \E a \in Actions :
       player' = [player EXCEPT
                    !.action_queue = Refill(@, a)]
  /\ phase' = "bad"
  /\ lastOp' = "Player.update"
  /\ UNCHANGED <<npc, scene>>

\* Level.run, second part: the bad-sprite group's update, which is
\* Skeleton.update / Minotaur.update of the NPC, then camera_update unless
\* the update raised
NPCUpdateWith(player_on_radar, good_on_radar, contact1, contact2) ==
  /\ Running
  /\ phase = "bad"
  /\ \E w \in UpdateResults(player_on_radar, good_on_radar, contact1, contact2, now) :
       /\ npc' = IF w.n.error = "none" THEN camera_update(w.n) ELSE w.n
       /\ player' = [player EXCEPT !.eaten_power = w.ep, !.action_queue = w.q]
  /\ phase' = "frame"
  /\ lastOp' = "NPC.update"
  /\ UNCHANGED <<now, scene>>

NPCUpdate ==
  \E player_on_radar, good_on_radar, contact1, contact2 \in BOOLEAN :
    NPCUpdateWith(player_on_radar, good_on_radar, contact1, contact2)

\* the public setters, called between two frames
Setters ==
  {"set_state_default", "set_state_patrol", "set_state_attack", "set_state_flee",
   "set_state_follow", "set_state_thrown", "set_state_track", "set_state_charge"}

ApplySetter(n, name, t, pc) ==
  CASE name = "set_state_default" -> set_state_default(n)
    [] name = "set_state_patrol" -> set_state_patrol(n)
    [] name = "set_state_attack" -> set_state_attack(n)
    [] name = "set_state_flee" -> set_state_flee(n)
    [] name = "set_state_follow" -> set_state_follow(n)
    [] name = "set_state_thrown" -> set_state_thrown(n, t, pc)
    [] name = "set_state_track" -> set_state_track(n)
    [] name = "set_state_charge" -> set_state_charge(n)

CallSetter ==
  /\ Running
  /\ phase = "frame"
  /\ \E name \in Setters, pc \in Headings :
       /\ npc' = History(npc, ApplySetter(npc, name, now, pc), FALSE, now)
       /\ lastOp' = name
  /\ UNCHANGED <<player, now, phase, scene>>

\* the timer bench: perf_counter() advances by a tenth of a second
TimerClock ==
  /\ phase = "timer"
  /\ npc.error = "none"
  /\ now < MaxTimerClock
  /\ now' = now + 1
  /\ lastOp' = "clock"
  /\ UNCHANGED <<npc, player, phase, scene>>

\* the timer bench: the turn of a patrol_movement call at the present clock
\* value (speed check, timer, flip)
PatrolTick ==
  /\ phase = "timer"
  /\ npc.error = "none"
  /\ npc' = patrol_turn(
              [npc EXCEPT !.speed = DEFAULT_SPEED],
              timer_check(npc.last_time_stored, PATROL_TIMER_SECONDS, now,
                          TenthsPerSecond).finished,
              now)
  /\ lastOp' = "patrol_movement"
  /\ UNCHANGED <<player, now, phase, scene>>

\* the timers of an NPC
Timers == {"last_time_stored", "initial_tracking_time", "initial_charge_time"}

\* the timer bench: is_timer_finished called on one of the NPC's timers; a
\* raise is recorded in npc.error
TimerRead ==
  /\ phase = "timer"
  /\ npc.error = "none"
  /\ \E which \in Timers, threshold_seconds \in 1 .. PATROL_TIMER_SECONDS :
       npc' = [npc EXCEPT
                 !.error = timer_check(npc[which], threshold_seconds, now,
                                       TenthsPerSecond).raised]
  /\ lastOp' = "is_timer_finished"
  /\ UNCHANGED <<player, now, phase, scene>>

NextTimer == TimerClock \/ PatrolTick \/ TimerRead

\* the timer bench
SpecTimer == InitTimer /\ [][NextTimer]_vars

\* the radar scene: Minotaur.automate_movement's
\* radar_set_state(self._good_sprites, self.set_state_track)
RadarScan ==
  /\ phase = "radar"
  /\ LET hitbox_list == scene.sprite_group_list
         collisions == collidelistall(radar_of(scene.rect), hitbox_list)
     IN /\ scene' = IF collisions # <<>> /\ npc.current_state # "Thrown"
                    THEN set_target_sprite_from_list(scene, collisions)
                    ELSE scene
        /\ npc' = radar_set_state(npc, collisions # <<>>, "good", "track")
  /\ lastOp' = "radar_set_state"
  /\ UNCHANGED <<player, now, phase>>

\* the radar scene
SpecRadar == InitRadar /\ [][RadarScan]_vars

\* the collision scene: collision_handler of the actor, as Player.update and
\* the NPC's movement policies call it before move
CollisionHandlerAt ==
  /\ phase = "collide"
  /\ scene' = [scene EXCEPT
                 !.actor = collision_handler_at(@, scene.obstacle_sprites, now),
                 !.collision_detected =
                    collision_detection_at(scene.actor, scene.obstacle_sprites).collision_detected]
  /\ phase' = "move"
  /\ lastOp' = "collision_handler"
  /\ UNCHANGED <<npc, player, now>>

\* the collision scene: move(speed) of the actor
MoveAt ==
  /\ phase = "move"
  /\ \E speed \in {DEFAULT_SPEED, DEFAULT_SPEED_FAST} :
       scene' = [scene EXCEPT !.actor = move(@, speed), !.speed = speed]
  /\ phase' = "moved"
  /\ lastOp' = "move"
  /\ UNCHANGED <<npc, player, now>>

NextCollide == CollisionHandlerAt \/ MoveAt

\* the collision scene
SpecCollide == InitCollide /\ [][NextCollide]_vars

\* the tracker bench: one more call of move(speed)
TrackerMove ==
  /\ phase = "track"
  /\ scene.calls < MaxCalls
  /\ scene' = [scene EXCEPT !.actor = tile_move_float(@, scene.speed),
                            !.calls = @ + 1]
  /\ lastOp' = "tracker_move"
  /\ UNCHANGED <<npc, player, now, phase>>

\* the tracker bench
SpecTracker == InitTracker /\ [][TrackerMove]_vars

\* the reflection bench: self.compass = self.compass.reflect(normal)
Reflect ==
  /\ phase = "reflect"
  /\ scene.calls < MaxReflections
  /\ \E normal \in ReflectNormals :
       scene' = [compass |-> vector_reflect(scene.compass, normal),
                 before |-> scene.compass,
                 normal |-> normal,
                 twice |-> (normal = scene.normal),
                 calls |-> scene.calls + 1]
  /\ lastOp' = "reflect"
  /\ UNCHANGED <<npc, player, now, phase>>

\* the reflection bench
SpecReflect == InitReflect /\ [][Reflect]_vars

\* the level bench: one call of Level.run
LevelRun ==
  /\ phase = "level"
  /\ scene.tick < MaxLevelTicks
  /\ \E pause_level \in BOOLEAN :
       scene' \in level_run(scene, pause_level)
  /\ lastOp' = "Level.run"
  /\ UNCHANGED <<npc, player, now, phase>>

\* the level bench
SpecLevel == InitLevel /\ [][LevelRun]_vars

\* the game loop bench: one pass of `while not self._quit_game` in Game.run,
\* which stores what LevelManager.run returns
GameLoop ==
  /\ phase = "game"
  /\ ~scene.quit_game
  /\ scene.loops < MaxLoops
  /\ \E selection \in UserSelection :
       LET m == level_manager_run(scene.manager, selection)
       IN scene' = [manager |-> m,
                    quit_game |-> m.quit_game,
                    loops |-> scene.loops + 1]
  /\ lastOp' = "LevelManager.run"
  /\ UNCHANGED <<npc, player, now, phase>>

\* the game loop bench
SpecGame == InitGame /\ [][GameLoop]_vars

\* the compass object bench: the calls that bind or write a compass
SetStateThrownRef ==
  /\ phase = "alias"
  /\ scene' = set_state_thrown_by_ref(scene)
  /\ lastOp' = "set_state_thrown"
  /\ UNCHANGED <<npc, player, now, phase>>

FleeMovementRef ==
  /\ phase = "alias"
  /\ \E facing \in BOOLEAN, nudge \in Nudges, side \in Sides :
       scene' = flee_movement_by_ref(scene, facing, nudge, side)
  /\ lastOp' = "flee_movement"
  /\ UNCHANGED <<npc, player, now, phase>>

MoveTowardsTargetRef ==
  /\ phase = "alias"
  /\ \E dx \in {-1, 0, 1}, dy \in {-1, 0, 1} :
       scene' = move_towards_target_sprite_by_ref(scene, dx, dy)
  /\ lastOp' = "move_towards_target_sprite"
  /\ UNCHANGED <<npc, player, now, phase>>

MoveAxisRef ==
  /\ phase = "alias"
  /\ \E axis \in Sides : scene' = move_axis_by_ref(scene, axis)
  /\ lastOp' = "move_axis"
  /\ UNCHANGED <<npc, player, now, phase>>

CollisionSetCompassRef ==
  /\ phase = "alias"
  /\ \E side \in Sides : scene' = collision_set_compass_by_ref(scene, side)
  /\ lastOp' = "collision_set_compass"
  /\ UNCHANGED <<npc, player, now, phase>>

PatrolFlipRef ==
  /\ phase = "alias"
  /\ scene' = patrol_flip_by_ref(scene)
  /\ lastOp' = "patrol_flip"
  /\ UNCHANGED <<npc, player, now, phase>>

TrackingRef ==
  /\ phase = "alias"
  /\ \E k \in TargetBearings : scene' = tracking_by_ref(scene, k)
  /\ lastOp' = "tracking_movement"
  /\ UNCHANGED <<npc, player, now, phase>>

ChargeMovementRef ==
  /\ phase = "alias"
  /\ scene' = charge_movement_by_ref(scene)
  /\ lastOp' = "charge_movement"
  /\ UNCHANGED <<npc, player, now, phase>>

CameraUpdateRef ==
  /\ phase = "alias"
  /\ scene' = camera_update_by_ref(scene)
  /\ lastOp' = "camera_update"
  /\ UNCHANGED <<npc, player, now, phase>>

PlayerInputRef ==
  /\ phase = "alias"
  /\ \E steps \in {-1, 1} :
       /\ player_turns(scene) + steps \in -MaxTurns .. MaxTurns
       /\ scene' = player_input_by_ref(scene, steps)
  /\ lastOp' = "Player.input"
  /\ UNCHANGED <<npc, player, now, phase>>

NextAlias ==
  \/ SetStateThrownRef
  \/ FleeMovementRef
  \/ MoveTowardsTargetRef
  \/ MoveAxisRef
  \/ CollisionSetCompassRef
  \/ PatrolFlipRef
  \/ TrackingRef
  \/ ChargeMovementRef
  \/ CameraUpdateRef
  \/ PlayerInputRef

SpecAlias == InitAlias /\ [][NextAlias]_vars

\* a frame of Level.run
Frame == PlayerUpdate \/ NPCUpdate

\* frames, with calls of the public setters between them
Next == PlayerUpdate \/ NPCUpdate \/ CallSetter

\* the level from construction
Spec == Init /\ [][Next]_vars

\* the frames of a level whose NPC patrols
SpecPatrol == InitPatrol /\ [][Frame]_vars

\* the frames of a level with the player and one NPC
SpecSolo == InitSolo /\ [][Frame]_vars

TypeOK ==
  /\ npc.current_state \in States
  /\ npc.speed \in {DEFAULT_SPEED_ZERO, DEFAULT_SPEED, DEFAULT_SPEED_FAST}
  /\ npc.target_sprite \in Targets
  /\ player.eaten_power \in EatenPowers
  /\ Len(player.action_queue) \in 0 .. MAX_ACTION_QUEUE_LENGTH
  /\ now \in 0 .. MaxClock

\* ------------------------------------------------------------------ claims

\* C1: no step takes the NPC from Thrown or Charging directly to Patrol, and
\* set_state_patrol invoked in Thrown or Charging leaves the NPC unchanged
\* (so Patrol follows Thrown only through Default, where thrown_movement
\* puts the NPC when its timer ends).
C1_NoPatrolFromThrownOrCharging ==
  /\ [][npc.current_state \in {"Thrown", "Charging"}
          => npc'.current_state # "Patrol"]_vars
  /\ [](npc.current_state \in {"Thrown", "Charging"}
          => /\ set_state_patrol(npc) = npc
             /\ radar_set_states(npc, FALSE, "player", "flee") = npc)

\* a Charging NPC has been updated, and the passive fallback of an empty
\* radar, which calls set_state_patrol, leaves it Charging
C1_Witness ==
  /\ npc.current_state = "Charging"
  /\ lastOp = "NPC.update"
  /\ radar_set_states(npc, FALSE, "player", "flee").current_state = "Charging"

\* C2: set_state_attack, set_state_flee and set_state_follow each leave the
\* state unchanged when they are called while the NPC is in Thrown.
C2_SettersRefuseThrown ==
  [][(npc.current_state = "Thrown"
        /\ lastOp' \in {"set_state_attack", "set_state_flee", "set_state_follow"})
       => npc'.current_state = "Thrown"]_vars

\* C3: the state immediately before Charging is Tracking and the state
\* immediately before Tracking is Patrol; set_state_charge does nothing
\* outside Tracking and set_state_track does nothing outside Patrol.
C3_ChargeAfterTrackAfterPatrol ==
  /\ [][/\ ((npc'.current_state = "Charging" /\ npc.current_state # "Charging")
               => npc.current_state = "Tracking")
         /\ ((npc'.current_state = "Tracking" /\ npc.current_state # "Tracking")
               => npc.current_state = "Patrol")]_vars
  /\ [](/\ (npc.current_state # "Tracking" => set_state_charge(npc) = npc)
        /\ (npc.current_state # "Patrol" => set_state_track(npc) = npc))

\* the NPC is Charging on the heading captured when set_state_charge took it
\* out of Tracking, where set_state_track had put it from Patrol
C3_Witness ==
  /\ npc.current_state = "Charging"
  /\ npc.captured # Nothing
  /\ lastOp = "NPC.update"

\* C4: when the player is not on the radar and the NPC is in neither Thrown
\* nor Charging, the passive fallback of radar_set_states puts the NPC in
\* Patrol; so does it with the NPC as constructed, in Default.
C4_PassiveFallbackPatrols ==
  (phase = "bad" /\ Running /\ npc.current_state \notin {"Thrown", "Charging"})
    => radar_set_states(npc, FALSE, "player", "flee").current_state = "Patrol"

\* C5: an NPC in Flee leaves Flee in the first update in which the player
\* is not on its radar (an update that runs to its end).
C5_FleeEndsOffRadar ==
  [][(npc.current_state = "Flee"
        /\ npc.target_sprite = "player"
        /\ npc'.error = "none"
        /\ \E good_on_radar, contact1, contact2 \in BOOLEAN :
             NPCUpdateWith(FALSE, good_on_radar, contact1, contact2))
       => npc'.current_state # "Flee"]_vars

C11_ThrownIsShielded ==
  [][(phase = "bad" /\ npc.current_state = "Thrown")
       => /\ npc'.target_sprite = npc.target_sprite
          /\ (npc'.current_state \in {"Thrown", "Default"} \/ ~npc'.alive)
          /\ ~is_timer_finished(npc.last_time_stored, THROWN_TIMER_SECONDS, now)
               => /\ player'.action_queue = player.action_queue
                  /\ (npc'.current_state = "Thrown" \/ ~npc'.alive)]_vars

\* a Thrown NPC whose timer runs is about to be updated with the player on
\* its radar and in contact, the queue holding an action, and stays Thrown
C11_Witness ==
  /\ phase = "bad"
  /\ Running
  /\ npc.current_state = "Thrown"
  /\ Len(player.action_queue) > 0
  /\ ~is_timer_finished(npc.last_time_stored, THROWN_TIMER_SECONDS, now)
  /\ \E w \in UpdateResults(TRUE, TRUE, TRUE, TRUE, now) :
       w.n.current_state = "Thrown" /\ w.n.alive /\ w.q = player.action_queue

C13_ThrownObstacleKills ==
  /\ []((Running /\ npc.current_state = "Thrown"
           /\ ~is_timer_finished(npc.last_time_stored, THROWN_TIMER_SECONDS, now))
          => \A c \in CollisionScans :
               c.detected
                 => /\ ~thrown_scan(World, c).n.alive
                    /\ thrown_scan(World, c).n.score_calls = npc.score_calls + 1
                    /\ thrown_scan(World, c).n.speed = npc.speed)
  /\ [][(phase = "bad" /\ npc.current_state = "Thrown"
           /\ ~is_timer_finished(npc.last_time_stored, THROWN_TIMER_SECONDS, now))
          => \/ /\ npc'.alive
                /\ npc'.score_calls = npc.score_calls
                /\ npc'.speed = DEFAULT_SPEED_FAST
             \/ /\ ~npc'.alive
                /\ npc'.score_calls = npc.score_calls + 1]_vars

\* a Thrown NPC whose timer runs is about to be updated, away from the
\* player, and an update in which its scan finds an obstacle kills it
C13_Witness ==
  /\ phase = "bad"
  /\ Running
  /\ npc.current_state = "Thrown"
  /\ ~is_timer_finished(npc.last_time_stored, THROWN_TIMER_SECONDS, now)
  /\ \E w \in UpdateResults(FALSE, FALSE, FALSE, FALSE, now) :
       ~w.n.alive /\ w.n.score_calls = npc.score_calls + 1

C16_UnstartedTimerRaises ==
  /\ [](\A threshold_seconds \in 1 .. PATROL_TIMER_SECONDS :
          timer_check(DEFAULT_TIMER_VALUE * TenthsPerSecond, threshold_seconds,
                      now, TenthsPerSecond).raised = "ValueError")
  /\ [][lastOp' = "is_timer_finished"
         => /\ [npc' EXCEPT !.error = "none"] = npc
            /\ npc'.error \in {"none", "ValueError"}
            /\ npc'.error = "ValueError"
                 => \E which \in Timers :
                      npc[which] = DEFAULT_TIMER_VALUE * TenthsPerSecond]_vars

\* an un-started timer has been read and the ValueError has been raised
C16_Witness ==
  /\ lastOp = "is_timer_finished"
  /\ npc.error = "ValueError"
  /\ npc.initial_tracking_time = DEFAULT_TIMER_VALUE * TenthsPerSecond
  /\ npc.current_state = "Patrol"

\* C17: radar_set_state against a group sets the target sprite to the member,
\* among those whose hitbox overlaps the radar rectangle, at the minimum
\* distance from the centre of the actor to the centre of the member; of
\* several members at that minimum distance the first of the group's order
\* is chosen.
C17_TargetIsNearestByCentre ==
  [][LET on_radar == collidelistall(radar_of(scene.rect), scene.sprite_group_list)
         members == {on_radar[k] : k \in 1 .. Len(on_radar)}
         from == center(scene.rect)
         to(i) == center(scene.sprite_group_list[i])
         d(i) == (to(i)[1] - from[1]) * (to(i)[1] - from[1])
                   + (to(i)[2] - from[2]) * (to(i)[2] - from[2])
     IN (lastOp' = "radar_set_state" /\ members # {})
          => /\ scene'.target_sprite \in members
             /\ \A j \in members :
                  \/ d(scene'.target_sprite) < d(j)
                  \/ d(scene'.target_sprite) = d(j) /\ scene'.target_sprite <= j]_vars

\* C18: after any interleaving of Player.update's ensure_full_action_queue
\* and the pops of the NPC's contacts, the player's action queue has between
\* 0 and MAX_ACTION_QUEUE_LENGTH entries and every entry is consume, destroy
\* or throw, never the none sentinel.
C18_QueueBounded ==
  /\ Len(player.action_queue) \in 0 .. MAX_ACTION_QUEUE_LENGTH
  /\ \A i \in 1 .. Len(player.action_queue) :
       player.action_queue[i] \in {"consume", "destroy", "throw"}

\* the queue is full before the NPC's update, and a contact of that update
\* pops an entry
C18_Witness ==
  /\ phase = "bad"
  /\ Running
  /\ Len(player.action_queue) = MAX_ACTION_QUEUE_LENGTH
  /\ \E w \in UpdateResults(FALSE, FALSE, TRUE, FALSE, now) :
       Len(w.q) = MAX_ACTION_QUEUE_LENGTH - 1

\* C19: pop_next_player_action on an empty queue returns Actions.none and
\* leaves the queue empty; an NPC that contacts the player and receives that
\* sentinel neither dies nor changes state, and the player's eaten_power is
\* unchanged. So in a tick that empties a queue of one entry, whatever the
\* number of contacts, the NPC dies at most once and eaten_power changes
\* only if the entry was consume.
C19_EmptyPopIsNoOp ==
  /\ [](/\ pop_next_player_action(<<>>) = <<"none", <<>>>>
        /\ collided_with_player([World EXCEPT !.q = <<>>], now)
             = {[World EXCEPT !.q = <<>>]})
  /\ [][(/\ lastOp' = "NPC.update"
          /\ Len(player.action_queue) = 1
          /\ player'.action_queue = <<>>)
         => /\ npc'.score_calls <= npc.score_calls + 1
            /\ player'.eaten_power # player.eaten_power
                 => player.action_queue[1] = "consume"]_vars

\* an NPC that flees touches the player twice in a tick whose queue holds
\* one destroy: the second pop finds the queue empty and the NPC has died
\* once
C19_Witness ==
  /\ phase = "bad"
  /\ Running
  /\ player.action_queue = <<"destroy">>
  /\ \E w \in UpdateResults(TRUE, FALSE, TRUE, TRUE, now) :
       /\ w.n.current_state = "Flee"
       /\ w.q = <<>>
       /\ ~w.n.alive
       /\ w.n.score_calls = npc.score_calls + 1
  /\ \A w \in UpdateResults(TRUE, FALSE, TRUE, TRUE, now) :
       w.n.current_state = "Flee" => w.q = <<>>

C21_ConsumeGivesArchetypePower ==
  (/\ phase = "bad"
   /\ Running
   /\ npc.current_state # "Thrown"
   /\ Len(player.action_queue) > 0
   /\ player.action_queue[Len(player.action_queue)] = "consume")
    => \A player_on_radar, good_on_radar, contact1, contact2 \in BOOLEAN :
         \A w \in UpdateResults(player_on_radar, good_on_radar, contact1, contact2, now) :
           (w.n.error = "none" /\ Len(w.q) < Len(player.action_queue))
             => /\ ~w.n.alive
                /\ w.ep = IF npc.kind = "Skeleton" THEN "basic_skeleton" ELSE "minotaur"

C23_OverlapResolved ==
  [][LET before == scene.actor
         after == scene'.actor
         min(x, y) == IF x < y THEN x ELSE y
         max(x, y) == IF x < y THEN y ELSE x
         overlap(h, o, axis) ==
           IF axis = "horizontal"
           THEN min(h.x + h.w, o.x + o.w) - max(h.x, o.x)
           ELSE min(h.y + h.h, o.y + o.h) - max(h.y, o.y)
     IN lastOp' = "collision_handler"
          => \A i \in 1 .. Len(scene.obstacle_sprites) :
               LET o == scene.obstacle_sprites[i]
                   axis == further_axis(before, center(o))
               IN colliderect(before.hitbox, o)
                    => overlap(after.hitbox, o, axis) <= 0]_vars

\* C24: after collision_handler returns, the compass does not point into any
\* obstacle that was just resolved: for each obstacle the actor's rect
\* overlapped at the start of the call, one or several at once, the compass
\* component along that obstacle's dominant axis is zero or directed away
\* from the obstacle.
C24_CompassLeavesObstacles ==
  [][LET before == scene.actor
         after == scene'.actor
     IN lastOp' = "collision_handler"
          => \A i \in 1 .. Len(scene.obstacle_sprites) :
               LET o == scene.obstacle_sprites[i]
                   dx == center(o)[1] - center(before.rect)[1]
                   dy == center(o)[2] - center(before.rect)[2]
               IN colliderect(before.rect, o)
                    => IF further_axis(before, center(o)) = "horizontal"
                       THEN dx * after.compass[1] <= 0
                       ELSE dy * after.compass[2] <= 0]_vars

\* C25: when a collision with one obstacle is handled and the actor's
\* heading points into the collided side on the dominant axis, the compass
\* is reflected across that axis: the dominant-axis component changes sign
\* and the other component keeps its value, for Player and NPC alike.
C25_BilliardReflection ==
  [][LET before == scene.actor
         after == scene'.actor
         o == scene.obstacle_sprites[1]
         dx == center(o)[1] - center(before.rect)[1]
         dy == center(o)[2] - center(before.rect)[2]
     IN (/\ lastOp' = "collision_handler"
         /\ Len(scene.obstacle_sprites) = 1
         /\ colliderect(before.rect, o))
          => IF further_axis(before, center(o)) = "horizontal"
             THEN dx * before.compass[1] > 0
                    => after.compass = <<-before.compass[1], before.compass[2]>>
             ELSE dy * before.compass[2] > 0
                    => after.compass = <<before.compass[1], -before.compass[2]>>]_vars

\* C26: when a collision with one obstacle, lying on one side of the actor,
\* is handled and the actor's heading does not point into that side on the
\* dominant axis, the
\* whole collision handling (teleport-out nudge and collision_set_compass)
\* leaves the compass unchanged.
C26_GlancingKeepsCompass ==
  [][LET before == scene.actor
         after == scene'.actor
         o == scene.obstacle_sprites[1]
         dx == center(o)[1] - center(before.rect)[1]
         dy == center(o)[2] - center(before.rect)[2]
     IN (/\ lastOp' = "collision_handler"
         /\ Len(scene.obstacle_sprites) = 1
         /\ colliderect(before.rect, o)
         /\ IF further_axis(before, center(o)) = "horizontal"
            THEN dx # 0 /\ dx * before.compass[1] <= 0
            ELSE dy # 0 /\ dy * before.compass[2] <= 0)
          => after.compass = before.compass]_vars

\* C27: when a collision scan detects a collision but sorts no contact point
\* into left/right/up/down, so that the average contact point is (0,0), the
\* resolver is a no-op: collision_handler leaves the actor's compass and,
\* for NPCs, _last_time_stored unchanged.
C27_NoContactsNoOp ==
  [][LET before == scene.actor
         after == scene'.actor
         found == collision_detection_at(before, scene.obstacle_sprites)
     IN (/\ lastOp' = "collision_handler"
         /\ found.collision_detected
         /\ found.sorted = NoContacts)
          => /\ after.compass = before.compass
             /\ after.last_time_stored = before.last_time_stored]_vars

\* C28: collision_detection reports collision_detected = true exactly when
\* the actor's hitbox intersects the hitbox of at least one member of the
\* candidate group, and false otherwise, also for an empty group.
C28_DetectedIffHitboxesIntersect ==
  [][lastOp' = "collision_handler"
       => (scene'.collision_detected
             <=> \E i \in 1 .. Len(scene.obstacle_sprites) :
                   colliderect(scene.actor.hitbox, scene.obstacle_sprites[i]))]_vars

\* C29: after every positional change of an actor (move, the one-pixel
\* moves, the teleport-out nudge of the collision handler), whatever the
\* actor's type, the centre of its hitbox is the centre of its display
\* rectangle.
C29_HitboxCentredAfterMove ==
  [][(lastOp' \in {"collision_handler", "move"}
        /\ scene'.actor.rect # scene.actor.rect)
       => center(scene'.actor.hitbox) = center(scene'.actor.rect)]_vars

\* C30: for every non-zero compass fed into move at a fixed speed the
\* displacement of one tick has the same magnitude, the speed, whether the
\* heading is diagonal or axis-aligned (compared as squares).
C30_DiagonalNoFasterThanAxis ==
  [][(lastOp' = "move" /\ scene.actor.compass # <<0, 0>>)
       => LET dx == scene'.actor.rect.x - scene.actor.rect.x
              dy == scene'.actor.rect.y - scene.actor.rect.y
          IN dx * dx + dy * dy = scene'.speed * scene'.speed]_vars

\* C31: with a constant compass component c = k / CompassSteps, |c| <= 1,
\* and speed s, after n calls of move() from an empty tracker the rect has
\* moved sign(c) * s * floor(n * |c|) pixels on that axis and the tracker
\* holds a residual below 1 in size; and one call moves the rect by at most
\* s pixels on an axis.
C31_TrackerStepsAreFloor ==
  /\ [](phase = "track" =>
          \A axis \in 1 .. 2 :
            LET k == scene.ratio[axis]
                steps == (scene.calls * abs(k)) \div CompassSteps
                moved == IF axis = 1 THEN scene.actor.rect.x - ActorRect.x
                         ELSE scene.actor.rect.y - ActorRect.y
            IN /\ moved = (IF k < 0 THEN -1 ELSE 1) * scene.speed * steps
               /\ mag_less(scene.actor.movement_tracker[axis], float_of_int(1)))
  /\ [][lastOp' = "tracker_move" =>
          /\ abs(scene'.actor.rect.x - scene.actor.rect.x) <= scene.speed
          /\ abs(scene'.actor.rect.y - scene.actor.rect.y) <= scene.speed]_vars

\* C32: a compass reflected twice in a row across the same axis normal,
\* (1,0) or (0,1), is the compass it was before the two reflections.
C32_ReflectTwiceIsIdentity ==
  [][(lastOp' = "reflect" /\ scene'.twice) => scene'.compass = scene.before]_vars

\* a compass with two non-zero components, one of them not a binary
\* fraction, has been reflected twice across the same normal
C32_Witness ==
  /\ phase = "reflect"
  /\ scene.twice
  /\ scene.compass[1] = float_of_ratio(3, CompassSteps)
  /\ scene.compass[2] = float_of_ratio(-1 * CompassSteps, CompassSteps)

\* C33: in every unpaused tick the player is updated first, then the bad
\* sprites, then the good ones, then the neutral ones: the update of a
\* sprite is given, for every sprite of a group earlier in that order, the
\* position that sprite's update of this tick left and groups without the
\* sprites that died in it.
C33_UpdateOrder ==
  [][(lastOp' = "Level.run" /\ ~scene'.paused) =>
       LET rank == [player |-> 1, bad |-> 2, good |-> 3, neutral |-> 4]
           group_of(a) == CHOOSE g \in DOMAIN scene.groups : a \in Range(scene.groups[g])
           members == UNION {Range(scene.groups[g]) : g \in DOMAIN scene.groups}
           dead == members \ UNION {Range(scene'.groups[g]) : g \in DOMAIN scene.groups}
       IN \A a \in members, b \in members :
            rank[group_of(b)] < rank[group_of(a)] =>
              /\ scene'.stamp[a] = scene'.tick
              /\ scene'.seen[a].stamp[b] = scene'.tick
              /\ scene'.seen[a].pos[b] = scene.pos[b] + DEFAULT_SPEED
              /\ b \in dead => b \notin scene'.seen[a].bad_sprites \cup scene'.seen[a].good_sprites]_vars

\* a second unpaused tick in which the skeleton has died, the damsel was
\* updated after it and the minotaur is still there
C33_Witness ==
  /\ phase = "level"
  /\ scene.tick = 2
  /\ ~scene.paused
  /\ scene.stamp["skeleton"] = 2
  /\ scene.stamp["damsel"] = 2
  /\ scene.groups.bad = <<"minotaur">>
  /\ scene.seen["damsel"].bad_sprites = {"minotaur"}

\* C34: once die() has been called on an NPC its state machine has ended,
\* also for the rest of that tick.  An NPC that is not Thrown and dies in an
\* update whose first pop returns destroy or consume died at that pop, so
\* the update pops nothing more from the player's queue and the NPC does
\* not change state (to Thrown) after it.
C34_DeathEndsStateMachine ==
  [][(/\ lastOp' = "NPC.update"
      /\ npc.alive /\ ~npc'.alive
      /\ npc.current_state # "Thrown"
      /\ Len(player.action_queue) > 0
      /\ player.action_queue[Len(player.action_queue)] \in {"destroy", "consume"})
       => /\ Len(player'.action_queue) = Len(player.action_queue) - 1
          /\ npc'.current_state # "Thrown"]_vars

\* C35: LevelManager.run returns True in the tick in which the user's
\* selection is quit and False as long as quit has not been selected.
C35_QuitIsReturned ==
  [][lastOp' = "LevelManager.run"
       => (scene'.quit_game <=> scene'.manager.user_input = "quit")]_vars

\* C36: a call of teleport_out_of_sprite moves the actor's rect by at most
\* one pixel, on the axis on which the centres of the actor and of the
\* collided rect are further apart and away from that centre, and leaves
\* the coordinate of the other axis alone.  The call looked at is the first
\* one the collision handler makes from the state: with the first sprite
\* the actor's rect collides with.
C36_TeleportOnePixelOnAxis ==
  phase \in {"collide", "moved"} =>
    LET found == collidelistall(scene.actor.rect, scene.obstacle_sprites)
    IN found # <<>> =>
         LET a == scene.actor
             r == scene.obstacle_sprites[found[1]]
             b == teleport_out(a, r)
             dx == b.rect.x - a.rect.x
             dy == b.rect.y - a.rect.y
             gap_x(c) == abs(center(c.rect)[1] - center(r)[1])
             gap_y(c) == abs(center(c.rect)[2] - center(r)[2])
         IN /\ abs(dx) + abs(dy) <= 1
            /\ IF gap_x(a) > gap_y(a) THEN dy = 0 ELSE dx = 0
            /\ dx # 0 => gap_x(b) > gap_x(a)
            /\ dy # 0 => gap_y(b) > gap_y(a)
            /\ b.rect.w = a.rect.w /\ b.rect.h = a.rect.h

\* C37: move_left, move_right, move_up and move_down, called on the actor
\* with the default speed, each leave the compass at the unit heading of
\* the direction moved, (-1,0), (1,0), (0,-1) and (0,1), and shift the rect
\* by the speed in that direction.
C37_MovesSetHeadingAndShift ==
  phase \in {"collide", "move", "moved"} =>
    LET a == scene.actor
        shifted(b, dx, dy) ==
          b.rect = Rect(a.rect.x + dx * DEFAULT_SPEED, a.rect.y + dy * DEFAULT_SPEED,
                        a.rect.w, a.rect.h)
    IN /\ step_left(a).compass = <<-1, 0>> /\ shifted(step_left(a), -1, 0)
       /\ step_right(a).compass = <<1, 0>> /\ shifted(step_right(a), 1, 0)
       /\ step_up(a).compass = <<0, -1>> /\ shifted(step_up(a), 0, -1)
       /\ step_down(a).compass = <<0, 1>> /\ shifted(step_down(a), 0, 1)

\* C38: no update tick, whatever the radar sees, the collisions, the player
\* actions and the clock, calls is_timer_finished on a timer that holds the
\* not-started value: no update raises the ValueError of an un-started
\* timer, and the timer of the patrol and thrown policies never holds it.
C38_TimersStartedBeforeRead ==
  /\ npc.error # "ValueError"
  /\ npc.last_time_stored # NotStarted

\* an update has started and read the charge timer, after the tracking timer
\* was started, read and found finished
C38_Witness ==
  /\ lastOp = "NPC.update"
  /\ npc.current_state = "Charging"
  /\ npc.initial_charge_time # NotStarted
  /\ npc.initial_tracking_time # NotStarted
  /\ npc.error = "none"

\* C39: an NPC that moves in Patrol, Attack, Flee or Follow (Default has no
\* movement) moves at DEFAULT_SPEED: an update that ends without error in
\* one of these states has run that state's movement policy, whose move
\* uses the speed the NPC is left with, and that speed is DEFAULT_SPEED
\* also after the NPC has been Thrown or Charging.
C39_SlowOutsideThrownAndCharging ==
  [][(/\ lastOp' = "NPC.update"
      /\ npc'.error = "none"
      /\ npc'.alive
      /\ npc'.current_state \in {"Patrol", "Attack", "Flee", "Follow"})
       => npc'.speed = DEFAULT_SPEED]_vars

\* C40: the NPC's compass is never the object that is the player's (its
\* target's) compass: set_state_thrown, flee_movement and
\* move_towards_target_sprite bind a copy, so no call of the NPC (a
\* reflection, a move_left/right/up/down, a patrol flip, or any other) changes
\* the value of the player's compass, and a rotation of the player's compass
\* by Player.input does not change the value of the NPC's compass.
C40_CompassNeverShared ==
  /\ [](scene.npc # scene.player)
  /\ [][lastOp' # "Player.input"
          => scene'.heap[scene'.player] = scene.heap[scene.player]]_vars
  /\ [][lastOp' = "Player.input"
          => scene'.heap[scene'.npc] = scene.heap[scene.npc]]_vars

\* the NPC holds a copy of the player's compass, has written into it, and the
\* two headings differ
C40_Witness ==
  /\ phase = "alias"
  /\ scene.origin = "player"
  /\ lastOp \in {"move_axis", "patrol_flip"}
  /\ scene.heap[scene.npc] # scene.heap[scene.player]
  /\ player_turns(scene) # 0

====
